---------------------------- MODULE Spec2Model ----------------------------
(***************************************************************************)
(* The classification expression parser of src/lib/eval/parser.cc: the     *)
(* LALR(1) automaton of EvalParser::parse (), its tables, its semantic     *)
(* actions that append evaluation tokens to ctx.expression, and its error  *)
(* reporting.  States, symbols and rules carry the numbers of the source.  *)
(***************************************************************************)
EXTENDS Integers, Sequences, FiniteSets, TLC

(***************************************************************************)
(* Parser tables (parser.cc, "const ... EvalParser::yy..._[] =").  C++     *)
(* arrays are 0-based; At(t, i) reads element i of table t.                *)
(***************************************************************************)
yypact_ninf_ == -98

yytable_ninf_ == -1

yypact_ ==
    <<  -23,   41,   41,   36,   41,   41,   28,   31,   35,   56,
         60,   92,   93,   84,   -8,   59,  -98,  -98,  -98,  -98,
        -98,   47,   55,  -98,  -98,   47,   55,  -98,   58,  -98,
         43,   43,   61,   17,  -14,   88,   88,   48,  -22,   73,
        -22,   74,   41,   41,   88,  -98,  -98,  -98,  107,  108,
        -98,  111,  -98,  -98,  -98,  -98,  -98,  -98,  -98,  -98,
        -98,  -98,  -98,  -98,  -98,  -98,  -98,  113,  116,  117,
         91,   96,   71,   98,  -98,  -98,  -98,  -98,  -98,  119,
        -98,  123,  -98,  -98,  126,  -98,  124,  125,  127,   43,
         43,   61,  -22,  -22,   94,   88,  128,  129,   52,   66,
         18,  131,  132,  133,  134,  135,  -98,  118,  147,  -15,
          2,  -98,  -98,  -98,  -98,  -98,  -98,  138,  -98,  -98,
        -98,  139,  140,  141,  142,  143,  -29,  -98,  -98,  146,
        148,  -98,   43,   62,   62,   20,  120,  145,  -98,  -98,
        157,  121,   43,  149,  151,  152,  -98,  153,  155,  156,
         43,   43,  -98,  158,   85,  160,  161,   97,  -98,  -98,
        162,  163,  -98,  -98,   62,   62 >>

yydefact_ ==
    <<    0,    0,    0,    0,    0,    0,    0,    0,    0,    0,
          0,    0,    0,    0,    0,    0,   18,   36,   19,   20,
          2,    6,    0,   35,    3,    4,    5,    1,    0,    8,
          0,    0,    0,    0,    0,    0,    0,    0,    0,    0,
          0,    0,    0,    0,    0,    7,   37,   38,    0,    0,
         41,    0,   42,   43,   44,   45,   24,   48,   49,   50,
         51,   52,   53,   54,   55,   56,   25,    0,    0,    0,
          0,    0,    0,    0,   57,   58,   26,   47,   46,    0,
         31,    0,   30,    9,   10,   11,    0,    0,    0,    0,
          0,    0,    0,    0,    0,    0,    0,    0,    0,    0,
          0,    0,    0,    0,    0,    0,   61,    0,    0,    0,
          0,   39,   40,   12,   21,   13,   22,    0,   59,   60,
         27,    0,    0,    0,    0,    0,    0,   29,   15,   33,
          0,   16,    0,    0,    0,    0,    0,    0,   63,   62,
          0,    0,    0,    0,    0,    0,   28,    0,    0,    0,
          0,    0,   34,    0,    0,    0,    0,    0,   14,   23,
          0,    0,   17,   32,    0,    0 >>

yypgoto_ ==
    <<  -98,  -98,  -98,  -98,    5,   -1,  -98,  -31,  -97,   76,
        -98,  -37,  -98,  -98,  -98,  -98,  -98 >>

yydefgoto_ ==
    <<   -1,    3,   24,   20,   21,   22,   23,   48,  114,   51,
         56,   79,   66,   76,  120,  107,  140 >>

yytable_ ==
    <<   49,   26,  116,   81,  128,  138,   38,   25,   39,   28,
         29,  130,   57,   58,   59,   60,   61,   62,   63,  139,
         77,  131,    1,    2,   64,   65,   78,  117,  129,  144,
        118,  119,  118,  119,   72,   73,   27,  116,   52,   53,
         54,   55,   30,   85,    4,   31,    5,   83,   84,   32,
          6,    7,    8,   42,   43,  104,  105,  159,  101,  102,
        163,    9,   45,   44,   42,   43,   10,  159,  163,  111,
        112,  113,   33,   40,   11,   41,   34,   12,   13,  111,
        112,   14,   15,  111,  112,  115,   74,   75,   16,   17,
         18,   46,   19,   47,  108,   35,   36,   67,   68,   69,
         37,  143,  111,  112,  158,   92,   94,   39,    9,   50,
         93,  148,   41,   10,  111,  112,  162,   80,   82,  155,
        156,   11,   86,   87,   12,   13,   88,   89,   70,   71,
         90,   91,   42,   95,   96,   16,   17,   18,   97,   19,
         98,   99,  106,  100,  109,  110,  121,  122,  123,  124,
        125,  127,  132,  126,  145,  133,  134,  135,  136,  137,
        141,  146,  142,  129,  149,  150,  151,  103,  152,  147,
        153,    0,  154,    0,  157,  160,  161,    0,  164,  165 >>

yycheck_ ==
    <<   31,    2,   99,   40,   19,   34,   14,    2,   16,    4,
          5,    9,   26,   27,   28,   29,   30,   31,   32,   48,
         42,   19,   45,   46,   38,   39,   48,    9,   43,    9,
         12,   13,   12,   13,   35,   36,    0,  134,   21,   22,
         23,   24,   14,   44,    3,   14,    5,   42,   43,   14,
          9,   10,   11,    6,    7,   92,   93,  154,   89,   90,
        157,   20,    4,    8,    6,    7,   25,  164,  165,   17,
         18,   19,   16,   14,   33,   16,   16,   36,   37,   17,
         18,   40,   41,   17,   18,   19,   38,   39,   47,   48,
         49,   48,   51,   50,   95,    3,    3,    9,   10,   11,
         16,  132,   17,   18,   19,   14,   35,   16,   20,   48,
         14,  142,   16,   25,   17,   18,   19,   44,   44,  150,
        151,   33,   15,   15,   36,   37,   15,   14,   40,   41,
         14,   14,    6,   35,   15,   47,   48,   49,   15,   51,
         16,   16,   48,   16,   16,   16,   15,   15,   15,   15,
         15,    4,   14,   35,    9,   16,   16,   16,   16,   16,
         14,    4,   14,   43,   15,   14,   14,   91,   15,   48,
         15,   -1,   16,   -1,   16,   15,   15,   -1,   16,   16 >>

yystos_ ==
    <<    0,   45,   46,   53,    3,    5,    9,   10,   11,   20,
         25,   33,   36,   37,   40,   41,   47,   48,   49,   51,
         55,   56,   57,   58,   54,   56,   57,    0,   56,   56,
         14,   14,   14,   16,   16,    3,    3,   16,   14,   16,
         14,   16,    6,    7,    8,    4,   48,   50,   59,   59,
         48,   61,   21,   22,   23,   24,   62,   26,   27,   28,
         29,   30,   31,   32,   38,   39,   64,    9,   10,   11,
         40,   41,   57,   57,   38,   39,   65,   42,   48,   63,
         44,   63,   44,   56,   56,   57,   15,   15,   15,   14,
         14,   14,   14,   14,   35,   35,   15,   15,   16,   16,
         16,   59,   59,   61,   63,   63,   48,   67,   57,   16,
         16,   17,   18,   19,   60,   19,   60,    9,   12,   13,
         66,   15,   15,   15,   15,   15,   35,    4,   19,   43,
          9,   19,   14,   16,   16,   16,   16,   16,   34,   48,
         68,   14,   14,   59,    9,    9,    4,   48,   59,   15,
         14,   14,   15,   15,   16,   59,   59,   16,   19,   60,
         15,   15,   19,   60,   16,   16 >>

yyr1_ ==
    <<    0,   52,   53,   53,   54,   54,   55,   56,   56,   56,
         56,   56,   56,   56,   56,   56,   56,   56,   57,   57,
         57,   57,   57,   57,   57,   57,   57,   57,   57,   57,
         57,   57,   57,   57,   57,   57,   58,   59,   59,   60,
         60,   61,   62,   62,   62,   62,   63,   63,   64,   64,
         64,   64,   64,   64,   64,   64,   64,   65,   65,   66,
         66,   67,   68,   68 >>

yyr2_ ==
    <<    0,    2,    2,    2,    1,    1,    1,    3,    2,    3,
          3,    3,    6,    6,   11,    6,    6,   11,    1,    1,
          1,    6,    6,   11,    3,    3,    3,    6,    8,    6,
          3,    3,   11,    6,    9,    1,    1,    1,    1,    1,
          1,    1,    1,    1,    1,    1,    1,    1,    1,    1,
          1,    1,    1,    1,    1,    1,    1,    1,    1,    1,
          1,    1,    1,    1 >>

yytname_ ==
    << "end of file", "error", "$undefined", "(",
       ")", "not", "and", "or",
       "==", "option", "relay4", "relay6",
       "peeraddr", "linkaddr", "[", "]",
       ".", "text", "hex", "exists",
       "pkt", "iface", "src", "dst",
       "len", "pkt4", "mac", "hlen",
       "htype", "ciaddr", "giaddr", "yiaddr",
       "siaddr", "substring", "all", ",",
       "concat", "pkt6", "msgtype", "transid",
       "vendor-class", "vendor", "*", "data",
       "enterprise", "top-level bool", "top-level string", "constant string",
       "integer", "constant hexstring", "option name", "ip address",
       "$accept", "start", "string_expression", "expression",
       "bool_expr", "string_expr", "integer_expr", "option_code",
       "option_repr_type", "nest_level", "pkt_metadata", "enterprise_id",
       "pkt4_field", "pkt6_field", "relay6_field", "start_expr",
       "length_expr" >>

At(t, i) == t[i + 1]

\* Symbol number of the symbol that yytname_ names.
Sym(name) == CHOOSE i \in 0 .. (Len(yytname_) - 1) : At(yytname_, i) = name

\* Last index of yytable_ and of yycheck_.
yylast_ == Len(yytable_) - 1

\* Number of terminals: the symbols below $accept, the left side of rule 1.
yyntokens_ == At(yyr1_, 1)

\* The state entered by shifting "end of file" after start.
yyfinal_ == CHOOSE s \in 1 .. (Len(yystos_) - 1) : At(yystos_, s) = 0

yyeof_ == 0

yyterror_ == 1

\* by_state::empty_state / empty_symbol: the lookahead holds no symbol.
empty_symbol == -2

yy_pact_value_is_default_(yyvalue) == yyvalue = yypact_ninf_

yy_table_value_is_error_(yyvalue) == yyvalue = yytable_ninf_

\* Faulty variant: the goto of "not" on bool_expr leads to the state of a whole
\* expression, so that a following "and" / "or" takes the operand.
yy_lr_goto_state_NotAsStart(yystate, yysym) ==
    IF yystate = 5 /\ yysym = Sym("bool_expr") THEN 21
    ELSE LET yyr == At(yypgoto_, yysym - yyntokens_) + yystate
         IN  IF 0 <= yyr /\ yyr <= yylast_ /\ At(yycheck_, yyr) = yystate
             THEN At(yytable_, yyr)
             ELSE At(yydefgoto_, yysym - yyntokens_)

\* Faulty variant: after "top-level bool" the goto on string_expr leads to the
\* state that the root of "top-level string" has for it.
yy_lr_goto_state_StringRootShared(yystate, yysym) ==
    IF yystate = 1 /\ yysym = Sym("string_expr") THEN 26
    ELSE LET yyr == At(yypgoto_, yysym - yyntokens_) + yystate
         IN  IF 0 <= yyr /\ yyr <= yylast_ /\ At(yycheck_, yyr) = yystate
             THEN At(yytable_, yyr)
             ELSE At(yydefgoto_, yysym - yyntokens_)

yy_lr_goto_state_(yystate, yysym) ==
    LET yyr == At(yypgoto_, yysym - yyntokens_) + yystate
    IN  IF 0 <= yyr /\ yyr <= yylast_ /\ At(yycheck_, yyr) = yystate
        THEN At(yytable_, yyr)
        ELSE At(yydefgoto_, yysym - yyntokens_)

(***************************************************************************)
(* Terminals as the lexer hands them to parse (): a symbol number and, for *)
(* the five valued terminals, the matched text as a sequence of character  *)
(* codes.  A location is a span of terminal positions.                     *)
(***************************************************************************)
T(name) == [type |-> Sym(name), text |-> <<>>]

TV(name, txt) == [type |-> Sym(name), text |-> txt]

\* make_INTEGER with the decimal digits of n (one character code per digit).
RECURSIVE Digits(_)
Digits(n) == IF n < 10 THEN <<48 + n>> ELSE Append(Digits(n \div 10), 48 + (n % 10))

make_INTEGER(n) == TV("integer", Digits(n))

make_STRING(txt) == TV("constant string", txt)

make_HEXSTRING(txt) == TV("constant hexstring", txt)

make_IPADDRESS(txt) == TV("ip address", txt)

make_OPTION_NAME(txt) == TV("option name", txt)

\* Outcome of yylex when the lexer rejects the text at this point.
LexFailure == [type |-> -1, text |-> <<>>]

(***************************************************************************)
(* Evaluation tokens (token.h): the kind and the operands fixed at parse   *)
(* time.  Operands a kind does not have are left at their default.         *)
(***************************************************************************)
Tok(kind) == [kind |-> kind, universe |-> "", num |-> 0, code |-> 0, mode |-> "", text |-> <<>>]

TokenNot == Tok("TokenNot")

TokenAnd == Tok("TokenAnd")

TokenOr == Tok("TokenOr")

TokenEqual == Tok("TokenEqual")

TokenSubstring == Tok("TokenSubstring")

TokenConcat == Tok("TokenConcat")

TokenString(txt) == [Tok("TokenString") EXCEPT !.text = txt]

TokenHexString(txt) == [Tok("TokenHexString") EXCEPT !.text = txt]

TokenIpAddress(txt) == [Tok("TokenIpAddress") EXCEPT !.text = txt]

\* Faulty variant: the token keeps the low 16 bits of the value.
TokenIntegerNarrow(n) == [Tok("TokenInteger") EXCEPT !.num = n % 65536]

TokenInteger(n) == [Tok("TokenInteger") EXCEPT !.num = n]

TokenOption(code, rep) == [Tok("TokenOption") EXCEPT !.code = code, !.mode = rep]

TokenRelay4Option(code, rep) == [Tok("TokenRelay4Option") EXCEPT !.code = code, !.mode = rep]

\* Faulty variant: the nest level and the option code change places.
TokenRelay6OptionSwapped(nest, code, rep) ==
    [Tok("TokenRelay6Option") EXCEPT !.num = code, !.code = nest, !.mode = rep]

TokenRelay6Option(nest, code, rep) ==
    [Tok("TokenRelay6Option") EXCEPT !.num = nest, !.code = code, !.mode = rep]

TokenRelay6Field(nest, field) == [Tok("TokenRelay6Field") EXCEPT !.num = nest, !.mode = field]

TokenPkt(meta) == [Tok("TokenPkt") EXCEPT !.mode = meta]

TokenPkt4(field) == [Tok("TokenPkt4") EXCEPT !.mode = field]

TokenPkt6(field) == [Tok("TokenPkt6") EXCEPT !.mode = field]

\* Faulty variant: the enterprise id and the sub-option code change places.
TokenVendorSwapped(u, id, mode, code) ==
    [Tok("TokenVendor") EXCEPT !.universe = u, !.num = code, !.mode = mode, !.code = id]

\* TokenVendor (u, vendor_id, repr/field, option_code = 0)
TokenVendor(u, id, mode, code) ==
    [Tok("TokenVendor") EXCEPT !.universe = u, !.num = id, !.mode = mode, !.code = code]

\* Faulty variant: the index is not handed on, the token keeps the default.
TokenVendorClassIndexDropped(u, id, mode, index) ==
    [Tok("TokenVendorClass") EXCEPT !.universe = u, !.num = id, !.mode = mode]

\* TokenVendorClass (u, vendor_id, repr/field, index = 0)
TokenVendorClass(u, id, mode, index) ==
    [Tok("TokenVendorClass") EXCEPT !.universe = u, !.num = id, !.mode = mode, !.code = index]

(***************************************************************************)
(* EvalContext helpers used by the semantic actions (eval_context.cc).     *)
(* Each converts the text of a literal and reports a value outside the     *)
(* target's range, or an unknown name, through ctx.error.                  *)
(***************************************************************************)
RECURSIVE DecValue(_)
DecValue(txt) ==
    IF txt = <<>> THEN 0
    ELSE 10 * DecValue(SubSeq(txt, 1, Len(txt) - 1)) + (txt[Len(txt)] - 48)

\* The value of txt modulo m, digit by digit.
RECURSIVE DecMod(_, _)
DecMod(txt, m) ==
    IF txt = <<>> THEN 0
    ELSE (10 * DecMod(SubSeq(txt, 1, Len(txt) - 1), m) + (txt[Len(txt)] - 48)) % m

\* txt without its leading zeros.
RECURSIVE Canonical(_)
Canonical(txt) == IF Len(txt) > 1 /\ txt[1] = 48 THEN Canonical(Tail(txt)) ELSE txt

\* The decimal literals a and b, of the same length, have a <= b.
RECURSIVE DigitsLeq(_, _)
DigitsLeq(a, b) ==
    \/ a = <<>>
    \/ a[1] < b[1]
    \/ a[1] = b[1] /\ DigitsLeq(Tail(a), Tail(b))

\* The largest value of an unsigned target of the given width, in decimal:
\* 255, 65535, 4294967295.
MaxLiteral(bits) ==
    CASE bits = 8  -> <<50, 53, 53>>
      [] bits = 16 -> <<54, 53, 53, 51, 53>>
      [] bits = 32 -> <<52, 50, 57, 52, 57, 54, 55, 50, 57, 53>>

\* The value of the literal txt is in the range of the target.
Fits(txt, bits) ==
    LET d == Canonical(txt)
        m == MaxLiteral(bits)
    IN  Len(d) < Len(m) \/ (Len(d) = Len(m) /\ DigitsLeq(d, m))

Pow2(bits) == IF bits = 8 THEN 256 ELSE 65536

\* What the cast to the target leaves of a value out of its range (for a
\* target of 32 bits the value left is not followed: 0).
Truncated(txt, bits) == IF bits = 32 THEN 0 ELSE DecMod(txt, Pow2(bits))

\* Faulty variant: no range check, the value is cast to the target.
ConvertTruncating(txt, bits) ==
    [ok |-> TRUE, val |-> IF Fits(txt, bits) THEN DecValue(txt) ELSE Truncated(txt, bits)]

\* [ok, val]: the value of txt in an unsigned target of the given width;
\* a value out of the range is an error.
Convert(txt, bits) ==
    IF Fits(txt, bits) THEN [ok |-> TRUE, val |-> DecValue(txt)]
    ELSE [ok |-> FALSE, val |-> Truncated(txt, bits)]

convertUint8(txt) == Convert(txt, 8)

convertNestLevelNumber(txt) == Convert(txt, 8)

convertOptionCode(txt) == Convert(txt, 16)

convertUint32(txt) == Convert(txt, 32)

\* The option name registry: "host-name" is option 12.
HostName == <<104, 111, 115, 116, 45, 110, 97, 109, 101>>

OptionDefs == {[name |-> HostName, code |-> 12]}

convertOptionName(txt) ==
    IF \E d \in OptionDefs : d.name = txt
    THEN [ok |-> TRUE, val |-> (CHOOSE d \in OptionDefs : d.name = txt).code]
    ELSE [ok |-> FALSE, val |-> 0]

(***************************************************************************)
(* Errors handed to EvalParser::error (loc, what).  A syntax error message *)
(* is kept as the format chosen by yysyntax_error_ (count) and its         *)
(* arguments (args: the unexpected terminal, then the expected ones).      *)
(***************************************************************************)
Err(b, e, what) == [begin |-> b, end |-> e, what |-> what, count |-> 0, args |-> <<>>]

Relay4Only == "relay4 can only be used in DHCPv4."

Relay6Only == "relay6 can only be used in DHCPv6."

Pkt4Only == "pkt4 can only be used in DHCPv4."

Pkt6Only == "pkt6 can only be used in DHCPv6."

ConversionFailed == "conversion failed"

LexerFailed == "lexer error"

SyntaxError == "syntax error"

(***************************************************************************)
(* The semantic actions of yyreduce (switch (yyn), rules 8 - 63).  S(i) is *)
(* yystack_[i], u is ctx.getUniverse ().  The result holds the tokens      *)
(* pushed on ctx.expression, the value given to yylhs and the errors       *)
(* reported.                                                               *)
(***************************************************************************)
NoValue == [emit |-> <<>>, num |-> 0, enum |-> "", errs |-> <<>>]

Emit(tok) == [NoValue EXCEPT !.emit = <<tok>>]

Enum(e) == [NoValue EXCEPT !.enum = e]

Report(sym, what) == [NoValue EXCEPT !.errs = <<Err(sym.begin, sym.end, what)>>]

\* yylhs.value = ctx.convert... (text, location) of the symbol sym
Converted(c, sym) ==
    [NoValue EXCEPT !.num = c.val,
                    !.errs = IF c.ok THEN <<>> ELSE <<Err(sym.begin, sym.end, ConversionFailed)>>]

\* Faulty variant: the 11-symbol rules report the location of the nest level.
GatedLocIndexNest(yyn) ==
    CASE yyn \in {13, 22, 27} -> 5
      [] yyn \in {14, 23}     -> 8
      [] yyn \in {25, 26}     -> 2

\* Position in yystack_ of the location that a family error reports.
GatedLocIndex(yyn) ==
    CASE yyn \in {13, 22, 27} -> 5
      [] yyn \in {14, 23}     -> 10
      [] yyn \in {25, 26}     -> 2

\* Faulty variant: rule 26 (pkt6) tests for V4 like rule 25.
GatedUniversePkt6InV4(yyn) == IF yyn \in {13, 22, 25, 26} THEN "V4" ELSE "V6"

\* The family that accepts the gated rule.
GatedUniverse(yyn) == IF yyn \in {13, 22, 25} THEN "V4" ELSE "V6"

GatedMessage(yyn) ==
    CASE yyn \in {13, 22}         -> Relay4Only
      [] yyn \in {14, 23, 27}     -> Relay6Only
      [] yyn = 25                 -> Pkt4Only
      [] yyn = 26                 -> Pkt6Only

\* Faulty variant: the wrong family is reported and the token is pushed all
\* the same.
GatedPushing(yyn, u, tok, stk) ==
    IF u = GatedUniverse(yyn) THEN Emit(tok)
    ELSE [Report(stk[Len(stk) - GatedLocIndex(yyn)], GatedMessage(yyn)) EXCEPT !.emit = <<tok>>]

\* switch (ctx.getUniverse ()) of rules 13, 14, 22, 23, 25, 26, 27
Gated(yyn, u, tok, stk) ==
    IF u = GatedUniverse(yyn) THEN Emit(tok)
    ELSE Report(stk[Len(stk) - GatedLocIndex(yyn)], GatedMessage(yyn))

\* the enterprise id that rule 47 gives to "*"
AnyEnterprise == 0

\* Faulty variant: rule 47 leaves the value of yylhs at all ones.
WildcardEnterpriseUnset == [NoValue EXCEPT !.num = 65535]

\* rule 47: enterprise_id: "*"
WildcardEnterprise == [NoValue EXCEPT !.num = AnyEnterprise]

\* the data chunk that rule 33 selects
DefaultChunk == 0

Pkt4Fields ==
    <<"CHADDR", "HLEN", "HTYPE", "CIADDR", "GIADDR", "YIADDR", "SIADDR", "MSGTYPE", "TRANSID">>

PktMetadata == <<"IFACE", "SRC", "DST", "LEN">>

\* Faulty variant: rules 61 - 63 push nothing.
StartLengthAsValue(txt) == NoValue

\* Faulty variant: the start and the length are range-checked as 32-bit
\* numbers and go to the program in canonical form.
StartLengthChecked(txt) ==
    IF txt = <<97, 108, 108>> \/ Fits(txt, 32)
    THEN Emit(TokenString(Canonical(txt)))
    ELSE [NoValue EXCEPT !.errs = <<Err(0, 0, ConversionFailed)>>]

\* rules 61 - 63: the start and the length of substring go to the program
\* as a string token
StartLengthToken(txt) == Emit(TokenString(txt))

All == <<97, 108, 108>>

\* The switch (yyn) of yyreduce; S(i) is yystack_[i], counted from the top.
SemanticAction(yyn, u, stk) ==
    LET S(i) == stk[Len(stk) - i] IN
    CASE yyn = 8  -> Emit(TokenNot)
      [] yyn = 9  -> Emit(TokenAnd)
      [] yyn = 10 -> Emit(TokenOr)
      [] yyn = 11 -> Emit(TokenEqual)
      [] yyn = 12 -> Emit(TokenOption(S(3).num, "EXISTS"))
      [] yyn = 13 -> Gated(yyn, u, TokenRelay4Option(S(3).num, "EXISTS"), stk)
      [] yyn = 14 -> Gated(yyn, u, TokenRelay6Option(S(8).num, S(3).num, "EXISTS"), stk)
      [] yyn = 15 -> Emit(TokenVendorClass(u, S(3).num, "EXISTS", 0))
      [] yyn = 16 -> Emit(TokenVendor(u, S(3).num, "EXISTS", 0))
      [] yyn = 17 -> Emit(TokenVendor(u, S(8).num, "EXISTS", S(3).num))
      [] yyn = 18 -> Emit(TokenString(S(0).str))
      [] yyn = 19 -> Emit(TokenHexString(S(0).str))
      [] yyn = 20 -> Emit(TokenIpAddress(S(0).str))
      [] yyn = 21 -> Emit(TokenOption(S(3).num, S(0).enum))
      [] yyn = 22 -> Gated(yyn, u, TokenRelay4Option(S(3).num, S(0).enum), stk)
      [] yyn = 23 -> Gated(yyn, u, TokenRelay6Option(S(8).num, S(3).num, S(0).enum), stk)
      [] yyn = 24 -> Emit(TokenPkt(S(0).enum))
      [] yyn = 25 -> Gated(yyn, u, TokenPkt4(S(0).enum), stk)
      [] yyn = 26 -> Gated(yyn, u, TokenPkt6(S(0).enum), stk)
      [] yyn = 27 -> Gated(yyn, u, TokenRelay6Field(S(3).num, S(0).enum), stk)
      [] yyn = 28 -> Emit(TokenSubstring)
      [] yyn = 29 -> Emit(TokenConcat)
      [] yyn = 30 -> Emit(TokenVendor(u, 0, "ENTERPRISE_ID", 0))
      [] yyn = 31 -> Emit(TokenVendorClass(u, 0, "ENTERPRISE_ID", 0))
      [] yyn = 32 -> Emit(TokenVendor(u, S(8).num, S(0).enum, S(3).num))
      [] yyn = 33 -> Emit(TokenVendorClass(u, S(3).num, "DATA", DefaultChunk))
      [] yyn = 34 -> LET c == convertUint8(S(1).str)
                     IN  [NoValue EXCEPT
                            !.emit = <<TokenVendorClass(u, S(6).num, "DATA", c.val)>>,
                            !.errs = Converted(c, S(1)).errs]
      [] yyn = 35 -> Emit(TokenInteger(S(0).num))
      [] yyn = 36 -> Converted(convertUint32(S(0).str), S(0))
      [] yyn = 37 -> Converted(convertOptionCode(S(0).str), S(0))
      [] yyn = 38 -> Converted(convertOptionName(S(0).str), S(0))
      [] yyn = 39 -> Enum("TEXTUAL")
      [] yyn = 40 -> Enum("HEXADECIMAL")
      [] yyn = 41 -> Converted(convertNestLevelNumber(S(0).str), S(0))
      [] yyn \in 42 .. 45 -> Enum(PktMetadata[yyn - 41])
      [] yyn = 46 -> Converted(convertUint32(S(0).str), S(0))
      [] yyn = 47 -> WildcardEnterprise
      [] yyn \in 48 .. 56 -> Enum(Pkt4Fields[yyn - 47])
      [] yyn = 57 -> Enum("MSGTYPE")
      [] yyn = 58 -> Enum("TRANSID")
      [] yyn = 59 -> Enum("PEERADDR")
      [] yyn = 60 -> Enum("LINKADDR")
      [] yyn = 61 -> StartLengthToken(S(0).str)
      [] yyn = 62 -> StartLengthToken(S(0).str)
      [] yyn = 63 -> StartLengthToken(All)
      [] OTHER    -> NoValue

(***************************************************************************)
(* The texts given to the parser.  The lexer is outside parser.cc; parse ()*)
(* sees it as yylex (ctx), one terminal per call.                          *)
(***************************************************************************)
\* Deepest nesting of "not" and of parentheses around an operand.
MaxNest == 2

Seq1(name) == <<T(name)>>

Bracket(x) == <<T("[")>> \o x \o <<T("]")>>

Dot(name) == <<T("."), T(name)>>

OptionCodes == {<<make_INTEGER(1)>>, <<make_OPTION_NAME(HostName)>>}

EnterpriseIds == {<<make_INTEGER(4491)>>, <<T("*")>>}

NestLevels == {<<make_INTEGER(1)>>}

ReprTypes == {"text", "hex"}

\* bool_expr productions 12 - 17
BoolAtoms ==
    {Seq1("option") \o Bracket(c) \o Dot("exists") : c \in OptionCodes}
    \cup {Seq1("relay4") \o Bracket(c) \o Dot("exists") : c \in OptionCodes}
    \cup {Seq1("relay6") \o Bracket(n) \o Dot("option") \o Bracket(<<make_INTEGER(2)>>) \o Dot("exists") :
            n \in NestLevels}
    \cup {Seq1("vendor-class") \o Bracket(e) \o Dot("exists") : e \in EnterpriseIds}
    \cup {Seq1("vendor") \o Bracket(e) \o Dot("exists") : e \in EnterpriseIds}
    \cup {Seq1("vendor") \o Bracket(e) \o Dot("option") \o Bracket(<<make_INTEGER(2)>>) \o Dot("exists") :
            e \in EnterpriseIds}

\* string_expr productions 18 - 27 and 30 - 35
StringAtoms ==
    {<<make_STRING(<<97>>)>>, <<make_HEXSTRING(<<48, 49>>)>>, <<make_IPADDRESS(<<49>>)>>, <<make_INTEGER(7)>>}
    \cup {Seq1("option") \o Bracket(c) \o Dot(r) : c \in OptionCodes, r \in ReprTypes}
    \cup {Seq1("relay4") \o Bracket(<<make_INTEGER(1)>>) \o Dot(r) : r \in ReprTypes}
    \cup {Seq1("relay6") \o Bracket(n) \o Dot("option") \o Bracket(<<make_INTEGER(2)>>) \o Dot(r) :
            n \in NestLevels, r \in ReprTypes}
    \cup {Seq1("pkt") \o Dot(f) : f \in {"iface", "src", "dst", "len"}}
    \cup {Seq1("pkt4") \o Dot(f) :
            f \in {"mac", "hlen", "htype", "ciaddr", "giaddr", "yiaddr", "siaddr",
                   "msgtype", "transid"}}
    \cup {Seq1("pkt6") \o Dot(f) : f \in {"msgtype", "transid"}}
    \cup {Seq1("relay6") \o Bracket(n) \o Dot(f) : n \in NestLevels, f \in {"peeraddr", "linkaddr"}}
    \cup {Seq1("vendor") \o Dot("enterprise"), Seq1("vendor-class") \o Dot("enterprise")}
    \cup {Seq1("vendor") \o Bracket(e) \o Dot("option") \o Bracket(<<make_INTEGER(2)>>) \o Dot(r) :
            e \in EnterpriseIds, r \in ReprTypes}
    \cup {Seq1("vendor-class") \o Bracket(e) \o Dot("data") : e \in EnterpriseIds}
    \cup {Seq1("vendor-class") \o Bracket(<<make_INTEGER(4491)>>) \o Dot("data") \o Bracket(<<make_INTEGER(3)>>)}

\* Fixed operands that surround the operand under study.
S0 == <<make_STRING(<<98>>)>>

B0 == Seq1("option") \o Bracket(<<make_INTEGER(5)>>) \o Dot("exists")

B1 == Seq1("option") \o Bracket(<<make_INTEGER(6)>>) \o Dot("exists")

Paren(x) == <<T("(")>> \o x \o <<T(")")>>

Comma(x, y) == x \o <<T(",")>> \o y

Equals(x, y) == x \o <<T("==")>> \o y

Concat(x, y) == Seq1("concat") \o Paren(Comma(x, y))

Substring(x, s, l) == Seq1("substring") \o Paren(Comma(Comma(x, s), l))

Lengths == {<<make_INTEGER(1)>>, Seq1("all")}

RECURSIVE Nots(_, _)
Nots(k, x) == IF k = 0 THEN x ELSE Seq1("not") \o Nots(k - 1, x)

RECURSIVE Parens(_, _)
Parens(k, x) == IF k = 0 THEN x ELSE Paren(Parens(k - 1, x))

Ops == {"and", "or"}

\* The atoms whose first terminal is relay4, relay6, pkt4 or pkt6.
GatedKeywords == {Sym("relay4"), Sym("relay6"), Sym("pkt4"), Sym("pkt6")}

GatedBoolAtoms == {x \in BoolAtoms : x[1].type \in GatedKeywords}

GatedStringAtoms ==
    {x \in StringAtoms : x[1].type \in GatedKeywords /\ x[Len(x)].type \notin
        {Sym("hlen"), Sym("htype"), Sym("ciaddr"), Sym("giaddr"), Sym("yiaddr"),
         Sym("siaddr"), Sym("hex")}}

\* string_expr productions 28, 29 around a string operand
StringExprs ==
    {Concat(s, S0) : s \in GatedStringAtoms \cup {S0}}
    \cup {Concat(S0, s) : s \in GatedStringAtoms}
    \cup {Substring(s, <<make_INTEGER(0)>>, <<make_INTEGER(1)>>) : s \in GatedStringAtoms}
    \cup {Substring(S0, <<make_INTEGER(0)>>, l) : l \in Lengths}

\* bool_expr productions 7 - 11 around one operand under study
BoolExprs ==
    {Equals(s, S0) : s \in StringAtoms \cup StringExprs}
    \cup {Equals(S0, s) : s \in GatedStringAtoms}
    \cup {Nots(k, b) : k \in 1 .. MaxNest, b \in GatedBoolAtoms \cup {B0}}
    \cup {Parens(k, b) : k \in 1 .. MaxNest, b \in GatedBoolAtoms \cup {B0}}
    \cup {b \o Seq1(o) \o B0 : o \in Ops, b \in GatedBoolAtoms}
    \cup {B0 \o Seq1(o) \o b : o \in Ops, b \in GatedBoolAtoms}
    \cup {B0 \o Seq1(o1) \o B1 \o Seq1(o2) \o b : o1 \in Ops, o2 \in Ops, b \in {B0, Equals(S0, S0)}}
    \cup {Seq1("not") \o B0 \o Seq1(o) \o B1 : o \in Ops}
    \cup {Seq1("not") \o Paren(b \o Seq1(o) \o B1) : o \in Ops, b \in GatedBoolAtoms}

Whole(mode, x) == Seq1(mode) \o x \o Seq1("end of file")

\* Literals at and beyond the ends of the ranges of the conversions:
\* 4294967296 and 2147483647, the largest value followed here.
TooLong32 == TV("integer", <<52, 50, 57, 52, 57, 54, 55, 50, 57, 54>>)

Large32 == make_INTEGER(2147483647)

UnknownName == make_OPTION_NAME(<<120>>)

RangeBoolAtoms ==
    {Seq1("option") \o Bracket(<<c>>) \o Dot("exists") :
        c \in {make_INTEGER(65535), make_INTEGER(65536), UnknownName}}
    \cup {Seq1("relay4") \o Bracket(<<make_INTEGER(65536)>>) \o Dot("exists")}
    \cup {Seq1("vendor") \o Bracket(<<e>>) \o Dot("exists") : e \in {TooLong32, Large32}}
    \cup {Seq1("vendor") \o Bracket(<<make_INTEGER(4491)>>) \o Dot("option")
            \o Bracket(<<make_INTEGER(65536)>>) \o Dot("exists")}

RangeStringAtoms ==
    {<<TooLong32>>, <<Large32>>}
    \cup {Seq1("relay6") \o Bracket(<<n>>) \o Dot("peeraddr") :
            n \in {make_INTEGER(255), make_INTEGER(256)}}
    \cup {Seq1("vendor-class") \o Bracket(<<make_INTEGER(4491)>>) \o Dot("data") \o Bracket(<<n>>) :
            n \in {make_INTEGER(255), make_INTEGER(256)}}

\* Texts that break off or go wrong at different depths of the parser stack.
MalformedTexts ==
    {Whole("top-level bool", x) :
        x \in {Seq1("option") \o Bracket(<<make_INTEGER(1)>>) \o Seq1("."),
               Paren(B0) \o Seq1(")"),
               Seq1("(") \o B0,
               B0 \o Seq1("and"),
               Seq1("not") \o Seq1("not") \o Seq1("("),
               Equals(S0, B0),
               Equals(Concat(S0, S0), Seq1("substring") \o Paren(Comma(S0, <<make_INTEGER(0)>>)))}}
    \cup {Whole("top-level string", x) :
        x \in {Concat(S0, Concat(S0, Seq1("concat"))),
               Seq1("substring") \o Seq1("(") \o Comma(Comma(S0, <<make_INTEGER(0)>>), Seq1("hex"))}}

\* The range atoms alone and as an operand.
RangeTexts ==
    {Whole("top-level bool", x) : x \in RangeBoolAtoms}
    \cup {Whole("top-level bool", B0 \o Seq1("and") \o x) : x \in RangeBoolAtoms}
    \cup {Whole("top-level string", x) : x \in RangeStringAtoms}
    \cup {Whole("top-level bool", Equals(S0, x)) : x \in RangeStringAtoms}
    \cup {Whole("top-level string", Concat(S0, <<make_INTEGER(7)>>))}

\* The texts with one construct, and one of each surrounding production.
SimpleTexts ==
    {Whole("top-level bool", x) :
        x \in BoolAtoms \cup {Equals(S0, S0), Nots(1, Paren(B0)), B0 \o Seq1("and") \o B1,
                              B0 \o Seq1("or") \o B1}}
    \cup {Whole("top-level string", x) :
        x \in StringAtoms \cup {B0, Concat(S0, S0), Substring(S0, <<make_INTEGER(0)>>, Seq1("all")),
                                Substring(S0, <<make_INTEGER(0)>>, <<make_INTEGER(1)>>)}}

\* Literals in the places of the start and the length of substring: in the
\* range of every target, beyond 32 bits, negative, with leading zeros.
StartLiterals ==
    {make_INTEGER(0), TooLong32, TV("integer", <<45, 49>>), TV("integer", <<48, 48, 55>>)}

LengthLiterals == {make_INTEGER(1), TooLong32, TV("integer", <<45, 49>>), T("all")}

LiteralSubstringTexts ==
    {Whole("top-level string", Substring(S0, <<s>>, <<l>>)) : s \in StartLiterals, l \in LengthLiterals}
    \cup {Whole("top-level string",
                Concat(S0, Substring(<<make_STRING(<<97>>)>>, <<make_INTEGER(0)>>, Seq1("all"))))}

\* An integer literal in each place of a string_expr: the source of
\* substring, both operands of concat and of ==.
IntegerOperandTexts ==
    {Whole("top-level string", Substring(<<make_INTEGER(7)>>, <<make_INTEGER(0)>>, <<make_INTEGER(1)>>)),
     Whole("top-level string", Concat(<<make_INTEGER(7)>>, <<Large32>>)),
     Whole("top-level bool", Equals(<<make_INTEGER(7)>>, <<make_INTEGER(8)>>))}

Texts ==
    SimpleTexts
    \cup {Whole("top-level bool", x) : x \in BoolExprs \cup {S0}}
    \cup {Whole("top-level string", x) : x \in StringExprs \cup {Equals(S0, S0)}}
    \cup RangeTexts
    \cup LiteralSubstringTexts
    \cup IntegerOperandTexts
    \cup MalformedTexts

Valued == {"constant string", "integer", "constant hexstring", "option name", "ip address"}

AnyTerminal ==
    {T(At(yytname_, t)) :
        t \in {n \in 0 .. (yyntokens_ - 1) :
                 At(yytname_, n) \notin ({"error", "$undefined"} \cup Valued)}}
    \cup {make_STRING(<<97>>), make_INTEGER(1), make_HEXSTRING(<<48, 49>>), make_OPTION_NAME(HostName), make_IPADDRESS(<<49>>)}

\* The texts that start with the terminals read so far.
Extending(texts, read) ==
    {y \in texts : Len(y) > Len(read) /\ SubSeq(y, 1, Len(read)) = read}

\* The terminals that continue a text after the terminals read so far.
Continuations(read) == {x[Len(read) + 1] : x \in Extending(Texts, read)}

\* yylex (ctx): the next terminal of a text or, once and within a simple
\* text, any terminal or a lexer error in its place; after that the input
\* ends.  With dev set from the start the lexer keeps to the texts.
yylex(read, dev) ==
    IF dev
    THEN IF Continuations(read) # {} THEN Continuations(read) ELSE {T("end of file")}
    ELSE Continuations(read)
         \cup (IF Extending(SimpleTexts, read) # {} THEN AnyTerminal \cup {LexFailure} ELSE {})

(***************************************************************************)
(* The evaluator (token.cc, evaluate.cc): the stack machine that runs a    *)
(* program on a packet.  A value on the stack is a boolean or a string of  *)
(* bytes.                                                                  *)
(***************************************************************************)
Bool(b) == [type |-> "bool", bool |-> b, str |-> <<>>]

Str(s) == [type |-> "string", bool |-> FALSE, str |-> s]

IsBool(v) == v.type = "bool"

IsStr(v) == v.type = "string"

\* The option with the given code among options: [found, data].
FindOption(options, code) ==
    IF \E o \in options : o.code = code
    THEN [found |-> TRUE, data |-> (CHOOSE o \in options : o.code = code).data]
    ELSE [found |-> FALSE, data |-> <<>>]

\* What an option lookup yields: the existence, or the payload, which is
\* empty when the option is absent.
Lookup(o, mode) == IF mode = "EXISTS" THEN Bool(o.found) ELSE Str(o.data)

\* The options of the relay layer at the nest level, none when the packet
\* has fewer layers.
RelayOptions(packet, nest) ==
    IF nest < Len(packet.relays) THEN packet.relays[nest + 1].options ELSE {}

RelayField(packet, nest, field) ==
    IF nest >= Len(packet.relays) THEN <<>>
    ELSE IF field = "PEERADDR" THEN packet.relays[nest + 1].peeraddr
    ELSE packet.relays[nest + 1].linkaddr

\* The four bytes of a number, most significant first.
Uint32Bytes(n) == <<n \div 16777216, (n \div 65536) % 256, (n \div 256) % 256, n % 256>>

\* A vendor or vendor-class option v of the packet answers for the
\* enterprise id: it is there and the id is 0 (any) or its own.
EnterpriseMatches(v, id) == v.present /\ (id = 0 \/ id = v.id)

VendorValue(v, tok) ==
    CASE tok.mode = "EXISTS" /\ tok.code = 0 -> Bool(EnterpriseMatches(v, tok.num))
      [] tok.mode = "ENTERPRISE_ID" -> Str(IF v.present THEN Uint32Bytes(v.id) ELSE <<>>)
      [] OTHER -> IF EnterpriseMatches(v, tok.num)
                  THEN Lookup(FindOption(v.options, tok.code), tok.mode)
                  ELSE Lookup(FindOption({}, tok.code), tok.mode)

VendorClassValue(v, tok) ==
    CASE tok.mode = "EXISTS" -> Bool(EnterpriseMatches(v, tok.num))
      [] tok.mode = "ENTERPRISE_ID" -> Str(IF v.present THEN Uint32Bytes(v.id) ELSE <<>>)
      [] OTHER -> Str(IF EnterpriseMatches(v, tok.num) /\ tok.code < Len(v.chunks)
                      THEN v.chunks[tok.code + 1]
                      ELSE <<>>)

\* txt is a decimal integer: digits after an optional minus sign.
IsDecimal(txt) ==
    LET digits == IF txt # <<>> /\ txt[1] = 45 THEN Tail(txt) ELSE txt
    IN  digits # <<>> /\ \A i \in 1..Len(digits) : digits[i] \in 48..57

\* The number that a decimal integer stands for.
SignedValue(txt) == IF txt[1] = 45 THEN 0 - DecValue(Tail(txt)) ELSE DecValue(txt)

Clamp(n, low, high) == IF n < low THEN low ELSE IF n > high THEN high ELSE n

\* Faulty variant: a negative start is clamped like any other, which
\* leaves it at the front of the source.
SubstringValueFromFront(source, start, length) ==
    LET n     == Len(source)
        first == Clamp(SignedValue(start), 0, n)
        count == IF length = All THEN n - first
                 ELSE Clamp(SignedValue(length), 0, n - first)
    IN  SubSeq(source, first + 1, first + count)

\* substring: start counts from the end when negative; start and length are
\* clamped to the source; "all" is the rest of the source.
SubstringValue(source, start, length) ==
    LET n     == Len(source)
        s     == SignedValue(start)
        first == IF s < 0 THEN Clamp(n + s, 0, n) ELSE Clamp(s, 0, n)
        count == IF length = All THEN n - first
                 ELSE Clamp(SignedValue(length), 0, n - first)
    IN  SubSeq(source, first + 1, first + count)

\* Faulty variant: the operands in the order they are popped.
ConcatValuePopOrder(first, second) == second \o first

\* concat: the bytes of the first operand, then those of the second.
ConcatValue(first, second) == first \o second

Push(values, v) == [ok |-> TRUE, values |-> Append(values, v)]

\* EvalBadStack, EvalTypeError: the token cannot work on this stack.
EvaluationError(values) == [ok |-> FALSE, values |-> values]

\* Faulty variant: an option that is not found has no value to push.
PushLookupFoundOnly(values, o, mode) ==
    IF o.found THEN Push(values, Lookup(o, mode)) ELSE EvaluationError(values)

\* The push of an option lookup: absent data is a value, never an error.
PushLookup(values, o, mode) == Push(values, Lookup(o, mode))

\* values without its last n elements.
Popped(values, n) == SubSeq(values, 1, Len(values) - n)

\* Token::evaluate (pkt, values) of each token kind: [ok, values].
TokenEvaluate(tok, values, packet) ==
    LET top(i) == values[Len(values) - i]
        k == tok.kind
    IN  CASE k \in {"TokenString", "TokenHexString", "TokenIpAddress"} ->
                Push(values, Str(tok.text))
          [] k = "TokenInteger" -> Push(values, Str(Uint32Bytes(tok.num)))
          [] k \in {"TokenPkt", "TokenPkt4", "TokenPkt6"} -> Push(values, Str(packet.field))
          [] k = "TokenOption" ->
                PushLookup(values, FindOption(packet.options, tok.code), tok.mode)
          [] k = "TokenRelay4Option" ->
                PushLookup(values, FindOption(packet.relay4, tok.code), tok.mode)
          [] k = "TokenRelay6Option" ->
                PushLookup(values, FindOption(RelayOptions(packet, tok.num), tok.code), tok.mode)
          [] k = "TokenRelay6Field" -> Push(values, Str(RelayField(packet, tok.num, tok.mode)))
          [] k = "TokenVendor" -> Push(values, VendorValue(packet.vendor, tok))
          [] k = "TokenVendorClass" -> Push(values, VendorClassValue(packet.vendorClass, tok))
          [] k = "TokenNot" ->
                IF Len(values) >= 1 /\ IsBool(top(0))
                THEN Push(Popped(values, 1), Bool(~top(0).bool))
                ELSE EvaluationError(values)
          [] k \in {"TokenAnd", "TokenOr"} ->
                IF Len(values) >= 2 /\ IsBool(top(0)) /\ IsBool(top(1))
                THEN Push(Popped(values, 2),
                          IF k = "TokenAnd" THEN Bool(top(1).bool /\ top(0).bool)
                          ELSE Bool(top(1).bool \/ top(0).bool))
                ELSE EvaluationError(values)
          [] k = "TokenEqual" ->
                IF Len(values) >= 2 /\ IsStr(top(0)) /\ IsStr(top(1))
                THEN Push(Popped(values, 2), Bool(top(1).str = top(0).str))
                ELSE EvaluationError(values)
          [] k = "TokenConcat" ->
                IF Len(values) >= 2 /\ IsStr(top(0)) /\ IsStr(top(1))
                THEN Push(Popped(values, 2), Str(ConcatValue(top(1).str, top(0).str)))
                ELSE EvaluationError(values)
          [] k = "TokenSubstring" ->
                IF /\ Len(values) >= 3
                   /\ IsStr(top(0)) /\ IsStr(top(1)) /\ IsStr(top(2))
                   /\ IsDecimal(top(1).str)
                   /\ (top(0).str = All \/ IsDecimal(top(0).str))
                THEN Push(Popped(values, 3),
                          Str(SubstringValue(top(2).str, top(1).str, top(0).str)))
                ELSE EvaluationError(values)

\* The packets: one without options, relay layers and vendor options, one
\* with them (option 12 with an empty payload), one relayed twice.
NoVendor == [present |-> FALSE, id |-> 0, options |-> {}, chunks |-> <<>>]

RelayLayer(options, peer, link) == [options |-> options, peeraddr |-> peer, linkaddr |-> link]

BarePacket ==
    [options |-> {}, relay4 |-> {}, relays |-> <<>>, vendor |-> NoVendor, vendorClass |-> NoVendor,
     field |-> <<1>>]

FullPacket ==
    [options |-> {[code |-> 5, data |-> <<97, 98>>], [code |-> 12, data |-> <<>>]},
     relay4 |-> {[code |-> 1, data |-> <<114>>]},
     relays |-> <<RelayLayer({[code |-> 2, data |-> <<120>>]}, <<16>>, <<17>>)>>,
     vendor |-> [present |-> TRUE, id |-> 4491, options |-> {[code |-> 2, data |-> <<118>>]},
                 chunks |-> <<>>],
     vendorClass |-> [present |-> TRUE, id |-> 4491, options |-> {}, chunks |-> <<<<100>>>>],
     field |-> <<2>>]

RelayedPacket ==
    [BarePacket EXCEPT !.relays = <<RelayLayer({}, <<18>>, <<19>>),
                                    RelayLayer({[code |-> 2, data |-> <<>>]}, <<20>>, <<21>>)>>]

Packets == {BarePacket, FullPacket, RelayedPacket}

\* No program is being evaluated.
NotEvaluating == [packet |-> BarePacket, values |-> <<>>, next |-> 0, status |-> "idle"]

(***************************************************************************)
(* The Linux packet filter of PktFilterLPF (pkt_filter_lpf.cc): the socket *)
(* filter program and the machine that the kernel runs it on.  A frame is  *)
(* the sequence of its bytes; byte offset o is element o + 1.              *)
(***************************************************************************)
ETHERNET_PACKET_TYPE_OFFSET == 12

ETHERNET_HEADER_LEN == 14

IP_FLAGS_OFFSET == 6

IP_PROTO_TYPE_OFFSET == 9

UDP_DEST_PORT == 2

ETHERTYPE_IP == 2048

IPPROTO_UDP == 17

DHCP4_SERVER_PORT == 67

\* The place of the port test in the program.
PortTest == 8

BPF_STMT(code, k) == [code |-> code, jt |-> 0, jf |-> 0, k |-> k]

BPF_JUMP(code, k, jt, jf) == [code |-> code, jt |-> jt, jf |-> jf, k |-> k]

\* (u_int)-1, every bit set: more bytes than a frame has.
WholePacket == -1

\* Faulty variant: the failed test of the Ethernet type jumps one instruction
\* too far, past the end of the program.
dhcp_sock_filter_far_jump ==
    <<BPF_STMT("BPF_LD + BPF_H + BPF_ABS", ETHERNET_PACKET_TYPE_OFFSET),
      BPF_JUMP("BPF_JMP + BPF_JEQ + BPF_K", ETHERTYPE_IP, 0, 9),
      BPF_STMT("BPF_LD + BPF_B + BPF_ABS", ETHERNET_HEADER_LEN + IP_PROTO_TYPE_OFFSET),
      BPF_JUMP("BPF_JMP + BPF_JEQ + BPF_K", IPPROTO_UDP, 0, 6),
      BPF_STMT("BPF_LD + BPF_H + BPF_ABS", ETHERNET_HEADER_LEN + IP_FLAGS_OFFSET),
      BPF_JUMP("BPF_JMP + BPF_JSET + BPF_K", 8191, 4, 0),
      BPF_STMT("BPF_LDX + BPF_B + BPF_MSH", ETHERNET_HEADER_LEN),
      BPF_STMT("BPF_LD + BPF_H + BPF_IND", ETHERNET_HEADER_LEN + UDP_DEST_PORT),
      BPF_JUMP("BPF_JMP + BPF_JEQ + BPF_K", DHCP4_SERVER_PORT, 0, 1),
      BPF_STMT("BPF_RET + BPF_K", WholePacket),
      BPF_STMT("BPF_RET + BPF_K", 0)>>

\* The program as compiled, instruction 0 first.
dhcp_sock_filter ==
    <<BPF_STMT("BPF_LD + BPF_H + BPF_ABS", ETHERNET_PACKET_TYPE_OFFSET),
      BPF_JUMP("BPF_JMP + BPF_JEQ + BPF_K", ETHERTYPE_IP, 0, 8),
      BPF_STMT("BPF_LD + BPF_B + BPF_ABS", ETHERNET_HEADER_LEN + IP_PROTO_TYPE_OFFSET),
      BPF_JUMP("BPF_JMP + BPF_JEQ + BPF_K", IPPROTO_UDP, 0, 6),
      BPF_STMT("BPF_LD + BPF_H + BPF_ABS", ETHERNET_HEADER_LEN + IP_FLAGS_OFFSET),
      BPF_JUMP("BPF_JMP + BPF_JSET + BPF_K", 8191, 4, 0),
      BPF_STMT("BPF_LDX + BPF_B + BPF_MSH", ETHERNET_HEADER_LEN),
      BPF_STMT("BPF_LD + BPF_H + BPF_IND", ETHERNET_HEADER_LEN + UDP_DEST_PORT),
      BPF_JUMP("BPF_JMP + BPF_JEQ + BPF_K", DHCP4_SERVER_PORT, 0, 1),
      BPF_STMT("BPF_RET + BPF_K", WholePacket),
      BPF_STMT("BPF_RET + BPF_K", 0)>>

\* The bits that a and b have in common.
RECURSIVE BitAnd(_, _)
BitAnd(a, b) ==
    IF a = 0 \/ b = 0 THEN 0
    ELSE 2 * BitAnd(a \div 2, b \div 2) + (IF a % 2 = 1 /\ b % 2 = 1 THEN 1 ELSE 0)

\* The frame has the size bytes at the offset.
InFrame(frame, offset, size) == offset >= 0 /\ offset + size <= Len(frame)

\* The byte and the half-word (most significant byte first) at the offset.
ByteAt(frame, offset) == frame[offset + 1]

HalfWordAt(frame, offset) == 256 * frame[offset + 1] + frame[offset + 2]

\* Faulty variant: the program is installed as compiled, with the default
\* port.
PortLeft(program, port) == program

\* Faulty variant: the port is written one instruction early, into the load
\* of the destination port.
PortPatchedAtLoad(program, port) == [program EXCEPT ![PortTest].k = port]

\* dhcp_sock_filter[8].k = port
PortPatched(program, port) == [program EXCEPT ![PortTest + 1].k = port]

\* One instruction of the program on the machine m = [pc, A, X, result]
\* (the kernel's sk_run_filter): a load outside the frame ends the run
\* with 0, a jump goes on jt or jf instructions after the next one, ret
\* ends the run with the number of bytes to keep.
Instruction(program, frame, m) ==
    LET ins  == program[m.pc + 1]
        drop == [m EXCEPT !.result = "dropped"]
        load(offset, size) ==
            IF ~InFrame(frame, offset, size) THEN drop
            ELSE [m EXCEPT !.A = IF size = 1 THEN ByteAt(frame, offset)
                                 ELSE HalfWordAt(frame, offset),
                           !.pc = @ + 1]
        jump(taken) == [m EXCEPT !.pc = @ + 1 + (IF taken THEN ins.jt ELSE ins.jf)]
    IN  CASE ins.code = "BPF_LD + BPF_H + BPF_ABS" -> load(ins.k, 2)
          [] ins.code = "BPF_LD + BPF_B + BPF_ABS" -> load(ins.k, 1)
          [] ins.code = "BPF_LD + BPF_H + BPF_IND" -> load(m.X + ins.k, 2)
          [] ins.code = "BPF_LDX + BPF_B + BPF_MSH" ->
                IF ~InFrame(frame, ins.k, 1) THEN drop
                ELSE [m EXCEPT !.X = 4 * (ByteAt(frame, ins.k) % 16), !.pc = @ + 1]
          [] ins.code = "BPF_JMP + BPF_JEQ + BPF_K" -> jump(m.A = ins.k)
          [] ins.code = "BPF_JMP + BPF_JSET + BPF_K" -> jump(BitAnd(m.A, ins.k) # 0)
          [] ins.code = "BPF_RET + BPF_K" ->
                [m EXCEPT !.result = IF ins.k = 0 THEN "dropped" ELSE "accepted"]

\* The machine before a run and between the runs.
Idle == [pc |-> 0, A |-> 0, X |-> 0, result |-> "none"]

\* No send or receive call is in progress.
NoCall ==
    [op |-> "none", pc |-> "none", sockets |-> <<>>, it |-> 0, sockfd |-> 0, given |-> <<>>,
     local |-> <<>>, buf |-> <<>>, data_len |-> 0, raw |-> <<>>, position |-> 0,
     pkt |-> <<>>, result |-> "none"]

\* No socket has been opened; the program is as compiled.
NoSocket ==
    [dhcp_sock_filter |-> dhcp_sock_filter, sock |-> -1, attached |-> <<>>, port |-> 0,
     frame |-> <<>>, machine |-> Idle, call |-> NoCall]

(***************************************************************************)
(* dns::Message (message.h): the mode of the message, the fields of its    *)
(* header and the number of records in its sections; given holds the      *)
(* codes set or parsed since the message was made or cleared, last the    *)
(* method called last and how it ended.                                    *)
(***************************************************************************)
PARSE == 0

RENDER == 1

\* No Opcode or Rcode has been set or parsed.
Unset == -1

\* The most questions, and the most RRsets, that a message is given.
MaxRecords == 1

\* Message (mode), clear (mode): an empty message in the mode.
EmptyMessage(mode) ==
    [mode |-> mode, flags |-> {}, qid |-> 0, rcode |-> Unset, opcode |-> Unset,
     edns |-> FALSE, questions |-> 0, rrsets |-> 0,
     given |-> {}, last |-> [op |-> "Message", outcome |-> "returned"]]

\* No message has been constructed.
NoMessage == [EmptyMessage(PARSE) EXCEPT !.last = [op |-> "none", outcome |-> "none"]]

(***************************************************************************)
(* State of one EvalParser::parse () call on an EvalContext.               *)
(***************************************************************************)
VARIABLES
    universe,      \* ctx.getUniverse (): "V4" or "V6", fixed for the parse
    errorThrows,   \* whether ctx.error throws (EvalParseError) or returns
    expression,    \* ctx.expression, the token program
    yystack_,      \* the parser stack, top last
    yyla,          \* the lookahead symbol
    yyn,           \* the rule to reduce
    yyerrstatus_,  \* shifts left before errors are reported again
    yynerrs_,      \* syntax errors reported
    yyresult,      \* the value parse () returns
    pc,            \* the label parse () is at
    read,          \* the terminals yylex has returned
    deviated,      \* yylex has left the texts
    errors,        \* the calls of EvalParser::error, oldest first
    compiled,      \* the program compile () gave to its caller
    verdict,       \* how compile () ended: "pending", "program", "rejected"
    reductions,    \* rules reduced since the last shift (kept for the proofs only)
    evaluation,    \* the run of the compiled program on a packet: packet, values, next, status
    lpf,           \* the raw socket of PktFilterLPF, its filter and the frame being filtered
    message        \* a dns::Message: its mode, header fields and sections

vars == <<universe, errorThrows, expression, yystack_, yyla, yyn, yyerrstatus_,
          yynerrs_, yyresult, pc, read, deviated, errors, compiled, verdict, reductions,
          evaluation, lpf, message>>

NoLookahead == [type |-> empty_symbol, text |-> <<>>, begin |-> 0, end |-> 0]

\* A stack symbol: by_state, the semantic value (one of string, integer,
\* enumerator), the location, and mark, the length of ctx.expression when
\* the first terminal of the symbol was shifted.
StackSymbol(s, str, num, enum, b, e, mark) ==
    [state |-> s, str |-> str, num |-> num, enum |-> enum, begin |-> b, end |-> e, mark |-> mark]

\* yystack_[i]: the i-th symbol from the top
Stack(stk, i) == stk[Len(stk) - i]

yypop_(stk, n) == SubSeq(stk, 1, Len(stk) - n)

\* yystack_.clear (); yypush_ (YY_NULLPTR, 0, yyla);
InitialStack == <<StackSymbol(0, <<>>, 0, "", 0, 0, 0)>>

ParseStart ==
    /\ expression = <<>>
    /\ yystack_ = InitialStack
    /\ yyla = NoLookahead
    /\ yyn = 0
    /\ yyerrstatus_ = 0
    /\ yynerrs_ = 0
    /\ yyresult = -1
    /\ pc = "yynewstate"
    /\ read = <<>>
    /\ errors = <<>>
    /\ compiled = <<>>
    /\ verdict = "pending"
    /\ reductions = 0
    /\ evaluation = NotEvaluating
    /\ lpf = NoSocket
    /\ message = NoMessage

ParseInit == ParseStart /\ deviated = FALSE

\* EvalContext::error (eval_context.cc) throws EvalParseError.
ErrorCallbackThrows == TRUE

\* EvalContext (universe) and a parser on it
Init ==
    /\ universe \in {"V4", "V6"}
    /\ errorThrows = ErrorCallbackThrows
    /\ ParseInit

\* The same with an error callback that may return to the parser.
InitReturning ==
    /\ universe \in {"V4", "V6"}
    /\ errorThrows \in BOOLEAN
    /\ ParseInit

\* yynewstate: accept in the final state, else go on
YyNewState ==
    /\ pc = "yynewstate"
    /\ pc' = IF Stack(yystack_, 0).state = yyfinal_ THEN "yyacceptlab" ELSE "yybackup"
    /\ UNCHANGED <<universe, errorThrows, expression, yystack_, yyla, yyn, yyerrstatus_,
                   yynerrs_, yyresult, read, deviated, errors,
                   compiled, verdict, reductions, evaluation, lpf, message>>

\* Faulty variant: in state 84 (bool_expr "or" bool_expr .) the entry that shifts
\* "and" is missing, so the "or" is reduced first.
TableEntryEqualPrecedence(s, t) ==
    LET n == At(yypact_, s) + t
    IN  IF n < 0 \/ yylast_ < n \/ At(yycheck_, n) # t \/ (s = 84 /\ t = Sym("and"))
        THEN [found |-> FALSE, yyn |-> 0]
        ELSE [found |-> TRUE, yyn |-> At(yytable_, n)]

\* The entry of yytable_ for terminal t in state s, if the state has one
\* (yyn += yyla.type_get (); the test of yycheck_).
TableEntry(s, t) ==
    LET n == At(yypact_, s) + t
    IN  IF n < 0 \/ yylast_ < n \/ At(yycheck_, n) # t
        THEN [found |-> FALSE, yyn |-> 0]
        ELSE [found |-> TRUE, yyn |-> At(yytable_, n)]

\* What yybackup does with lookahead la in state s: "shift" to a state,
\* go to "yyreduce" with a rule, to "yydefault" or to "yyerrlab".
Decide(s, la) ==
    LET entry == TableEntry(s, la.type)
    IN  IF ~entry.found THEN [do |-> "yydefault", n |-> 0]
        ELSE IF entry.yyn <= 0
        THEN IF yy_table_value_is_error_(entry.yyn)
             THEN [do |-> "yyerrlab", n |-> 0]
             ELSE [do |-> "yyreduce", n |-> -entry.yyn]
        ELSE [do |-> "shift", n |-> entry.yyn]

\* yybackup with the lookahead la at hand
Backup(la) ==
    LET d == Decide(Stack(yystack_, 0).state, la)
    IN  IF d.do = "shift"
        THEN /\ yyerrstatus_' = IF yyerrstatus_ > 0 THEN yyerrstatus_ - 1 ELSE 0
             /\ yystack_' = Append(yystack_,
                                   StackSymbol(d.n, la.text, 0, "", la.begin, la.end,
                                               Len(expression)))
             /\ yyla' = NoLookahead
             /\ pc' = "yynewstate"
             /\ UNCHANGED yyn
        ELSE /\ yyla' = la
             /\ yyn' = d.n
             /\ pc' = d.do
             /\ UNCHANGED <<yystack_, yyerrstatus_>>

\* yybackup: decide without lookahead, or read one and shift, reduce or fail
YyBackup ==
    /\ pc = "yybackup"
    /\ IF yy_pact_value_is_default_(At(yypact_, Stack(yystack_, 0).state))
       THEN /\ pc' = "yydefault"
            /\ UNCHANGED <<yystack_, yyla, yyn, yyerrstatus_, read, deviated, errors>>
       ELSE IF yyla.type # empty_symbol
       THEN /\ Backup(yyla)
            /\ UNCHANGED <<read, deviated, errors>>
       ELSE \E t \in yylex(read, deviated) :
              /\ read' = Append(read, t)
              /\ deviated' = (deviated \/ t \notin Continuations(read))
              /\ IF t = LexFailure
                 THEN \* the lexer reports through error () and parse () gives up
                      /\ errors' = Append(errors, Err(Len(read) + 1, Len(read) + 1, LexerFailed))
                      /\ pc' = IF errorThrows THEN "caught" ELSE "yyerrlab1"
                      /\ UNCHANGED <<yystack_, yyla, yyn, yyerrstatus_>>
                 ELSE /\ Backup([type |-> t.type, text |-> t.text,
                                 begin |-> Len(read) + 1, end |-> Len(read) + 1])
                      /\ UNCHANGED errors
    /\ UNCHANGED <<universe, errorThrows, expression, yynerrs_, yyresult, compiled, verdict>>
    /\ reductions' = IF pc' = "yynewstate" THEN 0 ELSE reductions
    /\ UNCHANGED <<evaluation, lpf, message>>

\* yydefault: the default action of the state
YyDefault ==
    /\ pc = "yydefault"
    /\ yyn' = At(yydefact_, Stack(yystack_, 0).state)
    /\ pc' = IF yyn' = 0 THEN "yyerrlab" ELSE "yyreduce"
    /\ UNCHANGED <<universe, errorThrows, expression, yystack_, yyla, yyerrstatus_,
                   yynerrs_, yyresult, read, deviated, errors,
                   compiled, verdict, reductions, evaluation, lpf, message>>

\* Faulty variant: the tokens go to the front of the program.
push_front(program, tokens) == tokens \o program

\* Faulty variant: the new token takes the place of the last one.
push_over(program, tokens) ==
    IF program = <<>> \/ tokens = <<>> THEN program \o tokens
    ELSE SubSeq(program, 1, Len(program) - 1) \o tokens

\* ctx.expression.push_back (token), for the tokens of one action
push_back(program, tokens) == program \o tokens

\* yyreduce: run the action of rule yyn, pop its right side, push yylhs
YyReduce ==
    /\ pc = "yyreduce"
    /\ LET yylen == At(yyr2_, yyn)
           S(i)  == Stack(yystack_, i)
           a     == SemanticAction(yyn, universe, yystack_)
           \* YYLLOC_DEFAULT (yylhs.location, slice, yylen)
           b     == IF yylen > 0 THEN S(yylen - 1).begin ELSE S(0).end
           e     == S(0).end
           mark  == IF yylen > 0 THEN S(yylen - 1).mark ELSE Len(expression)
           state == yy_lr_goto_state_(S(yylen).state, At(yyr1_, yyn))
       IN  /\ errors' = errors \o a.errs
           /\ IF a.errs # <<>> /\ errorThrows
              THEN /\ pc' = "caught"
                   /\ UNCHANGED <<expression, yystack_>>
              ELSE /\ expression' = push_back(expression, a.emit)
                   /\ yystack_' = Append(yypop_(yystack_, yylen),
                                         StackSymbol(state, <<>>, a.num, a.enum, b, e, mark))
                   /\ pc' = "yynewstate"
    /\ UNCHANGED <<universe, errorThrows, yyla, yyn, yyerrstatus_, yynerrs_, yyresult,
                   read, deviated, compiled, verdict>>
    /\ reductions' = reductions + 1
    /\ UNCHANGED <<evaluation, lpf, message>>

YYERROR_VERBOSE_ARGS_MAXIMUM == 5

\* Faulty variant: the loop never gives up the list.
RECURSIVE CollectExpectedNoCap(_, _, _, _)
CollectExpectedNoCap(n, yyx, yyxend, yyarg) ==
    IF yyx >= yyxend THEN yyarg
    ELSE IF /\ At(yycheck_, yyx + n) = yyx
            /\ yyx # yyterror_
            /\ ~yy_table_value_is_error_(At(yytable_, yyx + n))
         THEN CollectExpectedNoCap(n, yyx + 1, yyxend, Append(yyarg, yyx))
         ELSE CollectExpectedNoCap(n, yyx + 1, yyxend, yyarg)

\* The loop of yysyntax_error_ over the terminals yyx .. yyxend - 1 that the
\* state accepts; it gives up the list (yycount = 1) when yyarg is full.
RECURSIVE CollectExpected(_, _, _, _)
CollectExpected(n, yyx, yyxend, yyarg) ==
    IF yyx >= yyxend THEN yyarg
    ELSE IF /\ At(yycheck_, yyx + n) = yyx
            /\ yyx # yyterror_
            /\ ~yy_table_value_is_error_(At(yytable_, yyx + n))
         THEN IF Len(yyarg) = YYERROR_VERBOSE_ARGS_MAXIMUM
              THEN <<yyarg[1]>>
              ELSE CollectExpected(n, yyx + 1, yyxend, Append(yyarg, yyx))
         ELSE CollectExpected(n, yyx + 1, yyxend, yyarg)

\* yysyntax_error_ (yystate, yyla): the arguments of the message; their
\* number yycount selects the format.
yysyntax_error_(yystate, la) ==
    IF la.type = empty_symbol THEN <<>>
    ELSE LET n == At(yypact_, yystate)
         IN  IF yy_pact_value_is_default_(n) THEN <<la.type>>
             ELSE LET yyxbegin   == IF n < 0 THEN -n ELSE 0
                      yychecklim == yylast_ - n + 1
                      yyxend     == IF yychecklim < yyntokens_ THEN yychecklim ELSE yyntokens_
                  IN  CollectExpected(n, yyxbegin, yyxend, <<la.type>>)

\* yyerrlab: report a syntax error, unless one is being recovered from
YyErrLab ==
    /\ pc = "yyerrlab"
    /\ LET yyarg == yysyntax_error_(Stack(yystack_, 0).state, yyla)
           report == yyerrstatus_ = 0
       IN  /\ yynerrs_' = IF report THEN yynerrs_ + 1 ELSE yynerrs_
           /\ errors' = IF report
                        THEN Append(errors, [begin |-> yyla.begin, end |-> yyla.end,
                                             what |-> SyntaxError, count |-> Len(yyarg),
                                             args |-> yyarg])
                        ELSE errors
           /\ IF report /\ errorThrows
              THEN pc' = "caught" /\ yyla' = yyla
              ELSE IF yyerrstatus_ = 3 /\ yyla.type = yyeof_
              THEN pc' = "yyabortlab" /\ yyla' = yyla
              ELSE /\ pc' = "yyerrlab1"
                   /\ yyla' = IF yyerrstatus_ = 3 THEN NoLookahead ELSE yyla
    /\ UNCHANGED <<universe, errorThrows, expression, yystack_, yyn, yyerrstatus_,
                   yyresult, read, deviated, compiled, verdict, reductions, evaluation, lpf, message>>

\* Faulty variant: state 0 shifts the error token, to the state after the mode
\* terminal, and parsing resumes there.
ErrorPopRestart(stk) == [stack |-> SubSeq(stk, 1, 1), shift |-> 1]

\* The for (;;) of yyerrlab1: pop states until one shifts the error token.
\* shift is the state to shift to, 0 when the stack ran out (YYABORT).
RECURSIVE ErrorPop(_)
ErrorPop(stk) ==
    LET n == At(yypact_, stk[Len(stk)].state)
        m == n + yyterror_
    IN  IF /\ ~yy_pact_value_is_default_(n)
           /\ 0 <= m /\ m <= yylast_
           /\ At(yycheck_, m) = yyterror_
           /\ 0 < At(yytable_, m)
        THEN [stack |-> stk, shift |-> At(yytable_, m)]
        ELSE IF Len(stk) = 1 THEN [stack |-> stk, shift |-> 0]
        ELSE ErrorPop(yypop_(stk, 1))

\* yyerrorlab is entered only through YYERROR, which no semantic action of
\* this grammar uses: the label has no action here.
\* yyerrlab1: shift the error token, or abort when no state takes it
YyErrLab1 ==
    /\ pc = "yyerrlab1"
    /\ yyerrstatus_' = 3
    /\ LET r == ErrorPop(yystack_)
       IN  IF r.shift = 0
           THEN /\ yystack_' = r.stack
                /\ pc' = "yyabortlab"
           ELSE /\ yystack_' = Append(r.stack,
                                      StackSymbol(r.shift, <<>>, 0, "",
                                                  Stack(r.stack, 0).end, yyla.end,
                                                  Len(expression)))
                /\ pc' = "yynewstate"
    /\ UNCHANGED <<universe, errorThrows, expression, yyla, yyn, yynerrs_, yyresult,
                   read, deviated, errors, compiled, verdict, reductions, evaluation, lpf, message>>

\* yyacceptlab
YyAcceptLab ==
    /\ pc = "yyacceptlab"
    /\ yyresult' = 0
    /\ pc' = "yyreturn"
    /\ UNCHANGED <<universe, errorThrows, expression, yystack_, yyla, yyn, yyerrstatus_,
                   yynerrs_, read, deviated, errors, compiled, verdict, reductions, evaluation, lpf, message>>

\* Faulty variant: YYABORT goes back to the error recovery instead of
\* yyreturn.
YyAbortLabRetry ==
    /\ pc = "yyabortlab"
    /\ yyresult' = 1
    /\ pc' = "yyerrlab1"
    /\ UNCHANGED <<universe, errorThrows, expression, yystack_, yyla, yyn, yyerrstatus_,
                   yynerrs_, read, deviated, errors, compiled, verdict, reductions, evaluation, lpf, message>>

\* Faulty variant: YYABORT leaves parse () with the result of YYACCEPT.
YyAbortLabAccepting ==
    /\ pc = "yyabortlab"
    /\ yyresult' = 0
    /\ pc' = "yyreturn"
    /\ UNCHANGED <<universe, errorThrows, expression, yystack_, yyla, yyn, yyerrstatus_,
                   yynerrs_, read, deviated, errors, compiled, verdict, reductions, evaluation, lpf, message>>

\* yyabortlab
YyAbortLab ==
    /\ pc = "yyabortlab"
    /\ yyresult' = 1
    /\ pc' = "yyreturn"
    /\ UNCHANGED <<universe, errorThrows, expression, yystack_, yyla, yyn, yyerrstatus_,
                   yynerrs_, read, deviated, errors, compiled, verdict, reductions, evaluation, lpf, message>>

\* yyreturn: drop the lookahead and the stack, return yyresult
YyReturn ==
    /\ pc = "yyreturn"
    /\ yyla' = NoLookahead
    /\ yystack_' = SubSeq(yystack_, 1, 1)
    /\ pc' = "returned"
    /\ UNCHANGED <<universe, errorThrows, expression, yyn, yyerrstatus_, yynerrs_,
                   yyresult, read, deviated, errors, compiled, verdict, reductions, evaluation, lpf, message>>

\* Faulty variant: the handler swallows the exception and parse () returns 0.
CaughtSwallowed ==
    /\ pc = "caught"
    /\ yyla' = NoLookahead
    /\ yystack_' = SubSeq(yystack_, 1, 1)
    /\ yyresult' = 0
    /\ pc' = "returned"
    /\ UNCHANGED <<universe, errorThrows, expression, yyn, yyerrstatus_, yynerrs_,
                   read, deviated, errors, compiled, verdict, reductions, evaluation, lpf, message>>

\* catch (...): drop the lookahead and the stack, throw again
Caught ==
    /\ pc = "caught"
    /\ yyla' = NoLookahead
    /\ yystack_' = SubSeq(yystack_, 1, 1)
    /\ pc' = "thrown"
    /\ UNCHANGED <<universe, errorThrows, expression, yyn, yyerrstatus_, yynerrs_,
                   yyresult, read, deviated, errors, compiled, verdict, reductions, evaluation, lpf, message>>

\* The caller of parse (), compile (text, family): a program when parse ()
\* returned 0, a rejection when it returned something else or threw.
Compile ==
    /\ pc \in {"returned", "thrown"}
    /\ IF pc = "returned" /\ yyresult = 0
       THEN verdict' = "program" /\ compiled' = expression
       ELSE verdict' = "rejected" /\ compiled' = <<>>
    /\ pc' = "done"
    /\ UNCHANGED <<universe, errorThrows, expression, yystack_, yyla, yyn, yyerrstatus_,
                   yynerrs_, yyresult, read, deviated, errors, reductions, evaluation, lpf, message>>

Next ==
    \/ YyNewState
    \/ YyBackup
    \/ YyDefault
    \/ YyReduce
    \/ YyErrLab
    \/ YyAcceptLab
    \/ YyReturn
    \/ Caught
    \/ Compile

Spec == Init /\ [][Next]_vars

\* With an error callback that returns, parse () goes on to yyerrlab1.
NextReturning ==
    \/ Next
    \/ YyErrLab1
    \/ YyAbortLab

SpecReturning == InitReturning /\ [][NextReturning]_vars

(***************************************************************************)
(* Properties.                                                             *)
(***************************************************************************)
Last(s) == s[Len(s)]

Reported(what) == \E i \in 1 .. Len(errors) : errors[i].what = what

ReadHas(name) == \E i \in 1 .. Len(read) : read[i].type = Sym(name)

\* The keywords whose constructs the family u does not take.
WrongFamilyKeywords(u) ==
    IF u = "V4" THEN {Sym("relay6"), Sym("pkt6")} ELSE {Sym("relay4"), Sym("pkt4")}

\* C1: a text that holds a relay6 or pkt6 construct under V4, or a relay4 or
\* pkt4 construct under V6, is never accepted: parse () does not return 0
\* and compile () gives no program, wherever the construct stands.
C1_WrongFamilyNeverCompiles ==
    (yyresult = 0 \/ verdict = "program")
        => \A i \in 1 .. Len(read) : read[i].type \notin WrongFamilyKeywords(universe)

\* C1 witness: under V4 a relay6 option test below "not" has been reduced
\* and the text was rejected.
C1_Witness ==
    /\ pc = "done" /\ verdict = "rejected" /\ universe = "V4"
    /\ Len(read) >= 13
    /\ read[2].type = Sym("not") /\ read[3].type = Sym("relay6")
    /\ Reported(Relay6Only)

\* The values a token pops, by the arities of the evaluator: literals,
\* option, relay, pkt and vendor tokens pop nothing.
Pops(tok) ==
    CASE tok.kind = "TokenNot" -> 1
      [] tok.kind \in {"TokenAnd", "TokenOr", "TokenEqual", "TokenConcat"} -> 2
      [] tok.kind = "TokenSubstring" -> 3
      [] OTHER -> 0

\* The depth of the value stack after running program from depth d, every
\* token pushing one value; -1 when a token finds too few values.
RECURSIVE Execute(_, _)
Execute(program, d) ==
    IF program = <<>> THEN d
    ELSE IF d < Pops(Head(program)) THEN -1
    ELSE Execute(Tail(program), d - Pops(Head(program)) + 1)

\* C2: the program of an accepted parse never pops from an empty stack and
\* leaves exactly one value.
C2_StackBalanced == yyresult = 0 => Execute(expression, 0) = 1

\* C2 witness: an accepted program with a Substring token (three operands)
\* below an Equal token.
C2_Witness ==
    /\ pc = "done" /\ verdict = "program"
    /\ Len(expression) >= 6
    /\ \E i \in 1 .. Len(expression) : expression[i].kind = "TokenSubstring"
    /\ Last(expression).kind = "TokenEqual"

ExprSymbols == {Sym("bool_expr"), Sym("string_expr")}

\* A reduction of a bool_expr or string_expr rule that runs to its end.
ExprReduced ==
    /\ pc = "yyreduce" /\ pc' = "yynewstate"
    /\ At(yyr1_, yyn) \in ExprSymbols

AppendsOne ==
    /\ Len(expression') = Len(expression) + 1
    /\ SubSeq(expression', 1, Len(expression)) = expression

\* The kind of the token that an operator rule appends.
OperatorKind(rule) ==
    CASE rule = 8  -> "TokenNot"
      [] rule = 9  -> "TokenAnd"
      [] rule = 10 -> "TokenOr"
      [] rule = 11 -> "TokenEqual"
      [] rule = 28 -> "TokenSubstring"
      [] rule = 29 -> "TokenConcat"

\* Positions in yystack_ of the operands of an operator rule, left first.
Operands(rule) ==
    CASE rule = 8  -> <<0>>
      [] rule \in {9, 10, 11} -> <<2, 0>>
      [] rule = 28 -> <<5, 3, 1>>
      [] rule = 29 -> <<3, 1>>

\* The operands of the rule being reduced have their tokens in the program
\* in the order of the operands, each at least one, the last one at the end.
OperandsInOrder ==
    LET ops == Operands(yyn)
        from(k) == Stack(yystack_, ops[k]).mark
        upto(k) == IF k = Len(ops) THEN Len(expression)
                   ELSE Stack(yystack_, ops[k + 1]).mark
    IN  \A k \in 1 .. Len(ops) : from(k) < upto(k)

\* C3 as stated: every completed bool_expr or string_expr reduction appends
\* exactly one token.
C3_Original == [][ExprReduced => AppendsOne]_vars

\* C3 amended: every completed bool_expr or string_expr reduction except
\* the parenthesised group (rule 7, which appends nothing) appends exactly
\* one token at the end of the program; an operator's token comes after
\* the tokens of all its operands, and those of the left operand before
\* those of the right.
C3_PostOrder ==
    [][ExprReduced =>
          IF yyn = 7 THEN expression' = expression
          ELSE /\ AppendsOne
               /\ yyn \in {8, 9, 10, 11, 28, 29} =>
                     /\ Last(expression').kind = OperatorKind(yyn)
                     /\ OperandsInOrder]_vars

\* C3 witness: an accepted text with a parenthesised "and" / "or" under "not".
C3_Witness ==
    /\ pc = "done" /\ verdict = "program"
    /\ ReadHas("(") /\ ReadHas("not")
    /\ Len(expression) = 4
    /\ expression[3].kind \in {"TokenAnd", "TokenOr"} /\ expression[4].kind = "TokenNot"

\* The programs of the fixed operands.
ProgramB0 == <<TokenOption(5, "EXISTS")>>

ProgramB1 == <<TokenOption(6, "EXISTS")>>

ProgramS0 == <<TokenString(<<98>>)>>

ThirdOperands == {B0, Equals(S0, S0)}

ProgramThird(c) == IF c = B0 THEN ProgramB0 ELSE ProgramS0 \o ProgramS0 \o <<TokenEqual>>

OpToken(o) == IF o = "and" THEN TokenAnd ELSE TokenOr

ThreeOperands(o1, o2, c) ==
    Whole("top-level bool", B0 \o Seq1(o1) \o B1 \o Seq1(o2) \o c)

\* (A o1 B) o2 C
LeftGrouped(o1, o2, c) ==
    ProgramB0 \o ProgramB1 \o <<OpToken(o1)>> \o ProgramThird(c) \o <<OpToken(o2)>>

\* A o1 (B o2 C)
RightGrouped(o1, o2, c) ==
    ProgramB0 \o ProgramB1 \o ProgramThird(c) \o <<OpToken(o2), OpToken(o1)>>

\* C4 as stated: A o1 B o2 C compiles to A B o1 C o2 for all four pairs of
\* "and" / "or".
C4_Original ==
    \A o1 \in Ops, o2 \in Ops, c \in ThirdOperands :
        (pc = "done" /\ read = ThreeOperands(o1, o2, c))
            => (verdict = "program" /\ compiled = LeftGrouped(o1, o2, c))

\* C4 amended: "and" binds tighter than "or" and each is left-associative:
\* A or B and C compiles to A B C And Or, the other three pairs compile to
\* A B o1 C o2.
C4_AndBindsTighter ==
    \A o1 \in Ops, o2 \in Ops, c \in ThirdOperands :
        (pc = "done" /\ read = ThreeOperands(o1, o2, c))
            => /\ verdict = "program"
               /\ compiled = IF o1 = "or" /\ o2 = "and" THEN RightGrouped(o1, o2, c)
                             ELSE LeftGrouped(o1, o2, c)

\* C4 witness: A or B and C has been compiled.
C4_Witness ==
    /\ pc = "done" /\ verdict = "program"
    /\ read = ThreeOperands("or", "and", B0)

\* C5: not A and B (not A or B) compiles to A Not B And (Or).
C5_NotBindsTighter ==
    \A o \in Ops :
        (pc = "done" /\ read = Whole("top-level bool", Seq1("not") \o B0 \o Seq1(o) \o B1))
            => /\ verdict = "program"
               /\ compiled = ProgramB0 \o <<TokenNot>> \o ProgramB1 \o <<OpToken(o)>>

\* C5 witness: not A and B has been compiled.
C5_Witness ==
    /\ pc = "done" /\ verdict = "program"
    /\ read = Whole("top-level bool", Seq1("not") \o B0 \o Seq1("and") \o B1)
    /\ Len(compiled) = 4

\* A syntax error or a lexer error has been reported.
SyntaxOrLexerError == Reported(SyntaxError) \/ Reported(LexerFailed)

\* C6: once a syntax error or a lexer error has been reported, parse ()
\* reads no further terminal, appends no further token and does not accept,
\* whether the error callback throws or returns.
C6_NoRecovery ==
    [][SyntaxOrLexerError =>
          /\ read' = read
          /\ expression' = expression
          /\ yyresult' # 0
          /\ pc' # "yyacceptlab"
          /\ verdict' # "program"]_vars

\* C6 witness: with a callback that returns, a syntax error after tokens
\* were appended ended in parse () returning 1.
C6_Witness ==
    /\ pc = "done" /\ ~errorThrows
    /\ Reported(SyntaxError)
    /\ yyresult = 1
    /\ expression # <<>>

Acceptable(s) ==
    {t \in 0 .. (yyntokens_ - 1) :
        /\ t # yyterror_
        /\ TableEntry(s, t).found
        /\ ~yy_table_value_is_error_(TableEntry(s, t).yyn)}

\* The members of a set of numbers in ascending order.
RECURSIVE Ascending(_)
Ascending(set) ==
    IF set = {} THEN <<>>
    ELSE LET m == CHOOSE x \in set : \A y \in set : x <= y
         IN  <<m>> \o Ascending(set \ {m})

\* A syntax error has just been reported to a callback that throws.
SyntaxErrorCaught == pc = "caught" /\ errors # <<>> /\ Last(errors).what = SyntaxError

TopState == Stack(yystack_, 0).state

\* C8 as stated: the message of a syntax error is at the offending
\* terminal and lists the expected terminals when they are at most 5;
\* with more it is the bare "syntax error".
C8_Original ==
    SyntaxErrorCaught =>
        LET e == Last(errors)
            expected == Acceptable(TopState)
        IN  /\ e.begin = Len(read) /\ e.end = Len(read)
            /\ IF Cardinality(expected) <= 5
               THEN e.args = <<yyla.type>> \o Ascending(expected)
               ELSE e.count = 0

\* C8 amended: the message of a syntax error is at the offending terminal
\* and names it; the expected terminals are listed after it when they are
\* at most 4 (5 names with the unexpected one); with more the message is
\* "syntax error, unexpected X" alone.
C8_SyntaxErrorMessage ==
    SyntaxErrorCaught =>
        LET e == Last(errors)
            expected == Acceptable(TopState)
        IN  /\ e.begin = Len(read) /\ e.end = Len(read)
            /\ read[Len(read)] = [type |-> yyla.type, text |-> yyla.text]
            /\ e.count = Len(e.args)
            /\ e.args = IF Cardinality(expected) <= YYERROR_VERBOSE_ARGS_MAXIMUM - 1
                        THEN <<yyla.type>> \o Ascending(expected)
                        ELSE <<yyla.type>>

\* C8 witness: a syntax error in a state that accepts more than 4
\* terminals.
C8_Witness ==
    /\ SyntaxErrorCaught
    /\ Cardinality(Acceptable(TopState)) > 4
    /\ Last(errors).count = 1

\* C8 witness of the listing case: exactly 4 expected terminals listed.
C8_WitnessListed ==
    /\ SyntaxErrorCaught
    /\ Last(errors).count = 5

FamilyMessages == {Relay4Only, Relay6Only, Pkt4Only, Pkt6Only}

\* The keyword that opens the construct a family message is about.
KeywordOf(what) ==
    CASE what = Relay4Only -> Sym("relay4")
      [] what = Relay6Only -> Sym("relay6")
      [] what = Pkt4Only   -> Sym("pkt4")
      [] what = Pkt6Only   -> Sym("pkt6")

\* C9: a family error is reported at the location of the keyword that opens
\* the construct, not at a later terminal of it.
C9_FamilyErrorAtKeyword ==
    (pc = "caught" /\ errors # <<>> /\ Last(errors).what \in FamilyMessages) =>
        LET e == Last(errors)
            k == Len(read) - At(yyr2_, yyn) + 1
        IN  /\ e.begin = k /\ e.end = k
            /\ read[k].type = KeywordOf(e.what)

\* C9 witness: relay6[n].option[c].exists (11 terminals) under V4, below
\* other terminals, has been reported.
C9_Witness ==
    /\ pc = "caught" /\ errors # <<>>
    /\ Last(errors).what = Relay6Only
    /\ At(yyr2_, yyn) = 11
    /\ Len(read) > 12

VendorKeywords == {Sym("vendor"), Sym("vendor-class")}

\* The text read has empty brackets right after vendor or vendor-class.
EmptyEnterprise ==
    \E i \in 1 .. Len(read) - 2 :
        /\ read[i].type \in VendorKeywords
        /\ read[i + 1].type = Sym("[")
        /\ read[i + 2].type = Sym("]")

\* The text read has the given terminal between the brackets after vendor
\* or vendor-class.
EnterpriseGiven(t) ==
    \E i \in 1 .. Len(read) - 3 :
        /\ read[i].type \in VendorKeywords
        /\ read[i + 1].type = Sym("[")
        /\ read[i + 2] = t
        /\ read[i + 3].type = Sym("]")

VendorKinds == {"TokenVendor", "TokenVendorClass"}

\* The terminals between the brackets after vendor or vendor-class in the
\* text, in the order of the text.
RECURSIVE EnterpriseTerminals(_)
EnterpriseTerminals(text) ==
    IF Len(text) < 3 THEN <<>>
    ELSE (IF text[1].type \in VendorKeywords /\ text[2].type = Sym("[")
          THEN <<text[3]>> ELSE <<>>) \o EnterpriseTerminals(Tail(text))

\* The enterprise ids of the vendor tokens of a program that were built
\* from a bracketed enterprise id, in the order of the program.
RECURSIVE EnterpriseIdsOf(_)
EnterpriseIdsOf(program) ==
    IF program = <<>> THEN <<>>
    ELSE (IF Head(program).kind \in VendorKinds /\ Head(program).mode # "ENTERPRISE_ID"
          THEN <<Head(program).num>> ELSE <<>>) \o EnterpriseIdsOf(Tail(program))

\* The enterprise id that a terminal between the brackets stands for.
EnterpriseIdOf(t) == IF t.type = Sym("*") THEN 0 ELSE DecValue(t.text)

\* C10 as stated: the enterprise id may be left out; empty brackets after
\* vendor or vendor-class are never a syntax error.
C10_Original == EmptyEnterprise => ~Reported(SyntaxError)

\* C10 amended: the enterprise id is an INTEGER, used as given, or "*",
\* used as 0; it cannot be left out: empty brackets are never accepted.
C10_EnterpriseId ==
    /\ EmptyEnterprise => (yyresult # 0 /\ verdict # "program")
    /\ verdict = "program" =>
          LET given == EnterpriseTerminals(read)
          IN  /\ \A k \in 1 .. Len(given) : given[k].type \in {Sym("*"), Sym("integer")}
              /\ EnterpriseIdsOf(compiled) = [k \in 1 .. Len(given) |-> EnterpriseIdOf(given[k])]

\* C10 witness: a text with vendor[*] has been compiled to a token with
\* enterprise id 0.
C10_Witness ==
    /\ pc = "done" /\ verdict = "program"
    /\ EnterpriseGiven(T("*"))
    /\ EnterpriseIdsOf(compiled) = <<0>>

\* C10 witness of the rejection: empty brackets reported as a syntax error.
C10_WitnessEmpty ==
    /\ pc = "done" /\ verdict = "rejected"
    /\ EmptyEnterprise
    /\ Reported(SyntaxError)

ReprTerminals == {Sym("text"), Sym("hex")}

\* The representation type that a terminal selects.
ReprOf(name) == IF name = "text" THEN "TEXTUAL" ELSE "HEXADECIMAL"

\* The sub-option construct in the order of rule 32.
VendorSubOption(e, r) ==
    Seq1("vendor") \o Bracket(e) \o Dot("option") \o Bracket(<<make_INTEGER(2)>>) \o Dot(r)

\* The text read has vendor [ enterprise_id ] . followed by a
\* representation type.
ReprBeforeOption ==
    \E i \in 1 .. Len(read) - 5 :
        /\ read[i].type = Sym("vendor")
        /\ read[i + 1].type = Sym("[")
        /\ read[i + 3].type = Sym("]")
        /\ read[i + 4].type = Sym(".")
        /\ read[i + 5].type \in ReprTerminals

\* C11 as stated: the representation type comes before the option
\* selector, so a text with vendor [ enterprise_id ] . text (hex) is on its
\* way to a Vendor token and meets no syntax error.
C11_Original == ReprBeforeOption => ~Reported(SyntaxError)

\* C11 amended: the terminal order is vendor [ enterprise_id ] . option
\* [ option_code ] . text (hex), the option selector before the
\* representation type; a text in that order compiles to one Vendor token
\* with the enterprise id, the representation type and the sub-option code,
\* and a text with the representation type first is never accepted.
C11_VendorSubOption ==
    /\ \A e \in EnterpriseIds, r \in ReprTypes :
          (pc = "done" /\ read = Whole("top-level string", VendorSubOption(e, r)))
              => /\ verdict = "program"
                 /\ compiled = <<[kind |-> "TokenVendor", universe |-> universe,
                                  num |-> EnterpriseIdOf(e[1]), code |-> 2,
                                  mode |-> ReprOf(r), text |-> <<>>]>>
    /\ ReprBeforeOption => (yyresult # 0 /\ verdict # "program")

\* C11 witness: vendor[4491].option[2].hex has been compiled.
C11_Witness ==
    /\ pc = "done" /\ verdict = "program"
    /\ read = Whole("top-level string", VendorSubOption(<<make_INTEGER(4491)>>, "hex"))
    /\ Len(compiled) = 1

\* C11 witness of the rejection: the representation type right after the
\* enterprise id was reported as a syntax error.
C11_WitnessRejected ==
    /\ pc = "done" /\ verdict = "rejected"
    /\ ReprBeforeOption
    /\ Reported(SyntaxError)

\* The innermost "(" still open before position j of text, 0 when none.
RECURSIVE Opener(_, _, _)
Opener(text, j, depth) ==
    IF j = 0 THEN 0
    ELSE IF text[j].type = Sym(")") THEN Opener(text, j - 1, depth + 1)
    ELSE IF text[j].type = Sym("(")
         THEN IF depth = 0 THEN j ELSE Opener(text, j - 1, depth - 1)
    ELSE Opener(text, j - 1, depth)

\* Position i of text is a start or a length of substring.
StartOrLength(text, i) ==
    /\ i > 1 /\ text[i - 1].type = Sym(",")
    /\ LET o == Opener(text, i - 1, 0)
       IN  o > 1 /\ text[o - 1].type = Sym("substring")

\* The width of the target of the integer literal at position i of text by
\* the rule that takes it: 8 for a nest level (rule 41) and a data index
\* (rule 34), 16 for an option code (rule 37), 32 for an enterprise id
\* (rule 46) and an integer literal (rule 36); 0 for a terminal that is not
\* converted.
LiteralWidth(text, i) ==
    IF text[i].type # Sym("integer") THEN 0
    ELSE IF i > 2 /\ text[i - 1].type = Sym("[")
         THEN CASE text[i - 2].type \in {Sym("option"), Sym("relay4")} -> 16
                [] text[i - 2].type \in {Sym("relay6"), Sym("data")} -> 8
                [] text[i - 2].type \in VendorKeywords -> 32
                [] OTHER -> 0
    ELSE IF StartOrLength(text, i) THEN 0
    ELSE 32

\* The literal at position i of text cannot be converted.
BadLiteral(text, i) ==
    \/ LiteralWidth(text, i) # 0 /\ ~Fits(text[i].text, LiteralWidth(text, i))
    \/ text[i].type = Sym("option name") /\ \A d \in OptionDefs : d.name # text[i].text

\* C12: a text with an integer literal beyond the width of its target, or
\* with an option name that is not in the table, is never accepted; the
\* error reported for it is the conversion error, at the literal, and an
\* accepted literal reaches its token with its own value.
C12_RangeChecked ==
    /\ (yyresult = 0 \/ verdict = "program") =>
          \A i \in 1 .. Len(read) : ~BadLiteral(read, i)
    /\ (pc = "caught" /\ errors # <<>> /\ Last(errors).what = ConversionFailed) =>
          /\ Last(errors).begin = Last(errors).end
          /\ BadLiteral(read, Last(errors).begin)
    /\ (pc = "done" /\ read = Whole("top-level bool",
                                    Seq1("option") \o Bracket(<<make_INTEGER(65535)>>) \o Dot("exists"))) =>
          compiled = <<[kind |-> "TokenOption", universe |-> "", num |-> 0, code |-> 65535,
                        mode |-> "EXISTS", text |-> <<>>]>>

\* C12 witness: vendor[4294967296].exists has been rejected with a
\* conversion error.
C12_Witness ==
    /\ pc = "done" /\ verdict = "rejected"
    /\ read = <<T("top-level bool"), T("vendor"), T("["), TooLong32>>
    /\ Reported(ConversionFailed)
    /\ expression = <<>>

\* C12 witness of an index of 8 bits: vendor-class[4491].data[256] as an
\* operand of == has been rejected.
C12_WitnessIndex ==
    /\ pc = "done" /\ verdict = "rejected"
    /\ Reported(ConversionFailed)
    /\ Len(read) > 10
    /\ read[Len(read) - 1] = make_INTEGER(256)
    /\ read[Len(read) - 3].type = Sym("data")
    /\ Len(expression) = 1

\* C13: a step of parse () leaves the program as it is or appends one token
\* to its end; the tokens already in it stay where they are, so every
\* earlier program is a prefix of every later one, whether the parse is
\* accepted, aborted or left by an exception.
C13_AppendOnly ==
    [][\/ expression' = expression
       \/ /\ Len(expression') = Len(expression) + 1
          /\ SubSeq(expression', 1, Len(expression)) = expression]_vars

\* C13 witness: a parse that has appended five tokens one by one and goes
\* on.
C13_Witness ==
    /\ pc = "yynewstate"
    /\ Len(expression) = 5
    /\ expression[4].kind = "TokenSubstring"

\* parse () has returned or has been left by an exception.
Terminated == pc \in {"returned", "thrown", "done"}

\* The texts as they are, without a terminal out of place.
InitTerminating ==
    /\ universe \in {"V4", "V6"}
    /\ errorThrows \in BOOLEAN
    /\ ParseStart
    /\ deviated = TRUE

\* parse () and its caller are sequential code: a step that can be taken
\* is taken.
SpecTerminating == InitTerminating /\ [][NextReturning]_vars /\ WF_vars(NextReturning)

\* No rule has an empty right-hand side, so every parser stack symbol above
\* the first one covers at least one terminal read.
StackWithinInput == Len(yystack_) <= Len(read) + 1

\* The longest chain of rules with one right-hand-side symbol that reduce
\* the same terminal: INTEGER to integer_expr (rule 36) to string_expr
\* (rule 35) to string_expression (rule 4).
LongestUnitChain == 3

\* C14: parse () terminates on every text, accepted or not, with the error
\* callback throwing or returning: it returns or throws after finitely many
\* steps, and the rules reduced since the last shift are bounded by the
\* terminals read so far.
C14_Terminates ==
    /\ <>Terminated
    /\ [](StackWithinInput /\ reductions <= (LongestUnitChain + 1) * Len(read))

\* C14 witness: a parse of nine terminals or more, three rules reduced
\* after the last shift, has returned.
C14_Witness ==
    /\ pc = "returned"
    /\ Len(read) >= 9
    /\ reductions = 3

VendorClassData(e) == Seq1("vendor-class") \o Bracket(e) \o Dot("data")

\* The VendorClass token in data mode for enterprise id and chunk.
DataToken(id, chunk) ==
    [kind |-> "TokenVendorClass", universe |-> universe, num |-> id, code |-> chunk,
     mode |-> "DATA", text |-> <<>>]

DataIndexes == {3, 255}

\* C15: vendor-class[E].data compiles to one VendorClass token in data mode
\* for chunk 0, vendor-class[E].data[N] to one for chunk N, both with the
\* enterprise id E and the family of the context.
C15_VendorClassData ==
    /\ \A e \in EnterpriseIds :
          (pc = "done" /\ read = Whole("top-level string", VendorClassData(e)))
              => (verdict = "program" /\ compiled = <<DataToken(EnterpriseIdOf(e[1]), 0)>>)
    /\ \A n \in DataIndexes :
          (pc = "done"
           /\ read = Whole("top-level string",
                           VendorClassData(<<make_INTEGER(4491)>>) \o Bracket(<<make_INTEGER(n)>>)))
              => (verdict = "program" /\ compiled = <<DataToken(4491, n)>>)

\* C15 witness: vendor-class[4491].data[3] has been compiled under V6.
C15_Witness ==
    /\ pc = "done" /\ verdict = "program" /\ universe = "V6"
    /\ read = Whole("top-level string",
                    VendorClassData(<<make_INTEGER(4491)>>) \o Bracket(<<make_INTEGER(3)>>))
    /\ compiled[1].code = 3

\* C15 witness of the default: vendor-class[*].data has been compiled.
C15_WitnessDefault ==
    /\ pc = "done" /\ verdict = "program"
    /\ read = Whole("top-level string", VendorClassData(<<T("*")>>))
    /\ compiled[1].code = 0

(***************************************************************************)
(* evaluate (program, packet): the tokens of a compiled program are run in *)
(* program order on a private stack of values.                             *)
(***************************************************************************)
\* The largest start, length and string length among the programs run.
MaxOperand == 4

\* The decimal text of a number between -9 and 9.
DecimalText(n) == IF n < 0 THEN <<45, 48 - n>> ELSE <<48 + n>>

\* The source strings: "", "a", "ab", "abc", "abcd".
Sources == {[i \in 1..n |-> 96 + i] : n \in 0..MaxOperand}

Reprs == {"EXISTS", "TEXTUAL", "HEXADECIMAL"}

\* Lookups of options the packets have and lack, in relay layers the
\* packets have and lack.
LookupPrograms(u) ==
    {<<TokenOption(code, rep)>> : code \in {5, 7, 12}, rep \in Reprs}
    \cup {<<TokenVendor(u, id, rep, code)>> : id \in {0, 4491, 9}, rep \in Reprs, code \in {0, 2}}
    \cup {<<TokenVendorClass(u, id, "DATA", index)>> : id \in {0, 4491, 9}, index \in 0..1}
    \cup (IF u = "V4"
          THEN {<<TokenRelay4Option(code, rep)>> : code \in {1, 7}, rep \in Reprs}
          ELSE {<<TokenRelay6Option(nest, code, rep)>> :
                    nest \in 0..2, code \in {2, 7}, rep \in Reprs}
               \cup {<<TokenRelay6Field(nest, field)>> :
                         nest \in 0..2, field \in {"PEERADDR", "LINKADDR"}})

\* substring (source, start, length)
SubstringPrograms ==
    {<<TokenString(source), TokenString(DecimalText(start)), TokenString(length), TokenSubstring>> :
        source \in Sources, start \in (0 - MaxOperand - 1)..(MaxOperand + 1),
        length \in {All} \cup {DecimalText(l) : l \in -1..(MaxOperand + 1)}}

\* substring (concat (a, b), 0, len (a)) == a
RoundTripProgram(a, b) ==
    <<TokenString(a), TokenString(b), TokenConcat, TokenString(DecimalText(0)),
      TokenString(DecimalText(Len(a))), TokenSubstring, TokenString(a), TokenEqual>>

ConcatPrograms == {RoundTripProgram(a, b) : a, b \in Sources}

\* not option[5].exists and option[12].exists or substring(option[5].hex,0,1) == 'a'
LogicPrograms ==
    {<<TokenOption(5, "EXISTS"), TokenNot, TokenOption(12, "EXISTS"), TokenAnd,
       TokenOption(5, "HEXADECIMAL"), TokenString(DecimalText(0)), TokenString(DecimalText(1)),
       TokenSubstring, TokenString(<<97>>), TokenEqual, TokenOr>>}

\* Programs no parse produces: an operand is missing or of the wrong type.
CorruptPrograms ==
    {<<TokenNot>>, <<TokenString(<<97>>), TokenNot>>, <<TokenString(<<97>>), TokenConcat>>,
     <<TokenOption(5, "EXISTS"), TokenOption(5, "TEXTUAL"), TokenEqual>>,
     <<TokenString(<<97>>), TokenString(<<120>>), TokenString(All), TokenSubstring>>,
     <<TokenOption(5, "EXISTS"), TokenString(<<97>>), TokenOr, TokenNot>>}

EvalPrograms(u) ==
    LookupPrograms(u) \cup SubstringPrograms \cup ConcatPrograms \cup LogicPrograms
        \cup CorruptPrograms

\* compile () has returned a program and evaluate () is called with it and a
\* packet.
InitEvaluate ==
    /\ universe \in {"V4", "V6"}
    /\ errorThrows = ErrorCallbackThrows
    /\ expression \in EvalPrograms(universe)
    /\ compiled = expression
    /\ verdict = "program"
    /\ pc = "done"
    /\ yyresult = 0
    /\ yystack_ = InitialStack
    /\ yyla = NoLookahead
    /\ yyn = 0
    /\ yyerrstatus_ = 0
    /\ yynerrs_ = 0
    /\ read = <<>>
    /\ deviated = FALSE
    /\ errors = <<>>
    /\ reductions = 0
    /\ lpf = NoSocket
    /\ message = NoMessage
    /\ \E packet \in Packets :
           evaluation = [packet |-> packet, values |-> <<>>, next |-> 0, status |-> "running"]

\* evaluate (): the next token of the program works on the stack of values;
\* a token that cannot ends the evaluation with an error.
EvaluateToken ==
    /\ verdict = "program"
    /\ evaluation.status = "running"
    /\ evaluation.next < Len(compiled)
    /\ LET run == TokenEvaluate(compiled[evaluation.next + 1], evaluation.values,
                                evaluation.packet)
       IN  evaluation' = [evaluation EXCEPT !.values = run.values,
                                            !.next = @ + 1,
                                            !.status = IF run.ok THEN "running" ELSE "failed"]
    /\ UNCHANGED <<universe, errorThrows, expression, yystack_, yyla, yyn, yyerrstatus_,
                   yynerrs_, yyresult, pc, read, deviated, errors, compiled, verdict,
                   reductions, lpf, message>>

\* evaluate (): every token has run, what is on the stack is the result.
EvaluateFinish ==
    /\ verdict = "program"
    /\ evaluation.status = "running"
    /\ evaluation.next = Len(compiled)
    /\ evaluation' = [evaluation EXCEPT !.status = "finished"]
    /\ UNCHANGED <<universe, errorThrows, expression, yystack_, yyla, yyn, yyerrstatus_,
                   yynerrs_, yyresult, pc, read, deviated, errors, compiled, verdict,
                   reductions, lpf, message>>

NextEvaluate == EvaluateToken \/ EvaluateFinish

SpecEvaluate == InitEvaluate /\ [][NextEvaluate]_vars

\* The token that ran last and the stack it ran on are not kept by
\* evaluate (); the properties below read them off a step.
Running == compiled[evaluation.next + 1]

Operand(i) == evaluation.values[Len(evaluation.values) - i]

Result == evaluation'.values[Len(evaluation'.values)]

\* The lookup that the token makes finds nothing in the packet.
Absent(tok, packet) ==
    CASE tok.kind = "TokenOption" -> \A o \in packet.options : o.code # tok.code
      [] tok.kind = "TokenRelay4Option" -> \A o \in packet.relay4 : o.code # tok.code
      [] tok.kind = "TokenRelay6Option" ->
            \/ tok.num >= Len(packet.relays)
            \/ \A o \in packet.relays[tok.num + 1].options : o.code # tok.code
      [] tok.kind = "TokenRelay6Field" -> tok.num >= Len(packet.relays)
      [] tok.kind = "TokenVendorClass" ->
            tok.mode = "DATA" /\ tok.code >= Len(packet.vendorClass.chunks)
      [] OTHER -> FALSE

\* C16: a lookup of an option the packet lacks, in a relay layer the packet
\* lacks, or of a data chunk beyond the last one, raises no error and
\* yields false when existence is asked for and the empty string otherwise.
C16_AbsentDegrades ==
    [][(EvaluateToken /\ Absent(Running, evaluation.packet))
          => /\ evaluation'.status = "running"
             /\ Len(evaluation'.values) = Len(evaluation.values) + 1
             /\ Result = IF Running.mode = "EXISTS"
                         THEN [type |-> "bool", bool |-> FALSE, str |-> <<>>]
                         ELSE [type |-> "string", bool |-> FALSE, str |-> <<>>]]_vars

\* An absent option was asked for as text and the empty string is the result.
C16_Witness ==
    /\ evaluation.status = "finished"
    /\ compiled = <<TokenOption(7, "TEXTUAL")>>
    /\ evaluation.values = <<[type |-> "string", bool |-> FALSE, str |-> <<>>]>>

\* The second relay layer was asked for in a packet relayed once.
C16_WitnessRelay ==
    /\ evaluation.status = "finished"
    /\ compiled = <<TokenRelay6Option(1, 2, "EXISTS")>>
    /\ evaluation.packet = FullPacket
    /\ evaluation.values = <<[type |-> "bool", bool |-> FALSE, str |-> <<>>]>>

\* The larger and the smaller of two numbers.
Max(a, b) == IF a >= b THEN a ELSE b

Min(a, b) == IF a <= b THEN a ELSE b

\* The step runs substring on a source, a decimal start and a length that
\* is decimal or "all".
RunsSubstring ==
    /\ EvaluateToken
    /\ Running.kind = "TokenSubstring"
    /\ Len(evaluation.values) >= 3
    /\ \A i \in 0..2 : Operand(i).type = "string"
    /\ IsDecimal(Operand(1).str)
    /\ Operand(0).str = All \/ IsDecimal(Operand(0).str)

\* C17: substring (S, -N, L) with N > 0 starts N bytes before the end of S,
\* at the first byte when S has fewer than N; a start beyond the end and a
\* length beyond the bytes left or below 0 are clamped; for every source,
\* start and length the result is a string, the bytes of S from the start
\* on, and no error is raised.
C17_SubstringClamped ==
    [][RunsSubstring
          => LET S     == Operand(2).str
                 start == SignedValue(Operand(1).str)
                 first == IF start < 0 THEN Max(0, Len(S) + start) ELSE Min(start, Len(S))
                 count == IF Operand(0).str = All THEN Len(S) - first
                          ELSE Min(Max(SignedValue(Operand(0).str), 0), Len(S) - first)
             IN  /\ evaluation'.status = "running"
                 /\ Len(evaluation'.values) = Len(evaluation.values) - 2
                 /\ Result.type = "string"
                 /\ Len(Result.str) = count
                 /\ \A i \in 1..count : Result.str[i] = S[first + i]]_vars

\* substring ('abc', -2, 1) has given 'b'.
C17_Witness ==
    /\ evaluation.status = "finished"
    /\ compiled = <<TokenString(<<97, 98, 99>>), TokenString(<<45, 50>>), TokenString(<<49>>),
                    TokenSubstring>>
    /\ evaluation.values = <<[type |-> "string", bool |-> FALSE, str |-> <<98>>]>>

\* substring ('ab', -4, 5) has given 'ab': start and length were clamped.
C17_WitnessClamped ==
    /\ evaluation.status = "finished"
    /\ compiled = <<TokenString(<<97, 98>>), TokenString(<<45, 52>>), TokenString(<<53>>),
                    TokenSubstring>>
    /\ evaluation.values = <<[type |-> "string", bool |-> FALSE, str |-> <<97, 98>>]>>

\* C18: concat (A, B) has the bytes of A, then those of B, so its length is
\* len (A) + len (B); and substring (concat (A, B), 0, len (A)) is A.
C18_ConcatRoundTrip ==
    /\ [][(EvaluateToken /\ Running.kind = "TokenConcat" /\ Len(evaluation.values) >= 2
             /\ Operand(0).type = "string" /\ Operand(1).type = "string")
            => /\ evaluation'.status = "running"
               /\ Result.type = "string"
               /\ Len(Result.str) = Len(Operand(1).str) + Len(Operand(0).str)]_vars
    /\ [](\A a, b \in Sources :
             (compiled = RoundTripProgram(a, b) /\ evaluation.next = 6)
                => /\ evaluation.status = "running"
                   /\ evaluation.values = <<[type |-> "string", bool |-> FALSE, str |-> a]>>)

\* substring (concat ('ab', 'abc'), 0, 2) == 'ab' has given true.
C18_Witness ==
    /\ evaluation.status = "finished"
    /\ compiled = RoundTripProgram(<<97, 98>>, <<97, 98, 99>>)
    /\ evaluation.values = <<[type |-> "bool", bool |-> TRUE, str |-> <<>>]>>

(***************************************************************************)
(* PktFilterLPF::openSocket and the kernel running the attached filter     *)
(* on the frames that arrive on the interface.                             *)
(***************************************************************************)
\* The ports that openSocket is called with.
Ports == {DHCP4_SERVER_PORT, 68}

\* The bytes 6 and 7 of the IP header of the frames: not fragmented, don't
\* fragment, first fragment (more fragments, offset 0), middle fragment,
\* last fragment (offset 185, no more fragments).
FlagsAndOffsets == {0, 16384, 8192, 8192 + 185, 185}

\* An Ethernet frame with the given packet type, IP header of words 32-bit
\* words, flags and fragment offset, protocol and UDP destination port,
\* cut to size bytes; every other byte is 0.
Frame(type, words, flags, proto, dport, size) ==
    [i \in 1..size |->
        CASE i = ETHERNET_PACKET_TYPE_OFFSET + 1 -> type \div 256
          [] i = ETHERNET_PACKET_TYPE_OFFSET + 2 -> type % 256
          [] i = ETHERNET_HEADER_LEN + 1 -> 64 + words
          [] i = ETHERNET_HEADER_LEN + IP_FLAGS_OFFSET + 1 -> flags \div 256
          [] i = ETHERNET_HEADER_LEN + IP_FLAGS_OFFSET + 2 -> flags % 256
          [] i = ETHERNET_HEADER_LEN + IP_PROTO_TYPE_OFFSET + 1 -> proto
          [] i = ETHERNET_HEADER_LEN + 4 * words + UDP_DEST_PORT + 1 -> dport \div 256
          [] i = ETHERNET_HEADER_LEN + 4 * words + UDP_DEST_PORT + 2 -> dport % 256
          [] OTHER -> 0]

\* IP and ARP frames, UDP and TCP, headers without and with options, whole
\* and cut short in the Ethernet, the IP and the UDP header.
Frames ==
    {Frame(type, words, flags, proto, dport, size) :
        type \in {ETHERTYPE_IP, 2054}, words \in {5, 6}, flags \in FlagsAndOffsets,
        proto \in {IPPROTO_UDP, 6}, dport \in {DHCP4_SERVER_PORT, 68},
        size \in {13, 21, 37, 42, 46}}

InitFilter ==
    /\ universe = "V4"
    /\ errorThrows = ErrorCallbackThrows
    /\ ParseInit

\* openSocket (iface, addr, port, ...): socket (), the port written into the
\* program, setsockopt (SO_ATTACH_FILTER), which hands the kernel a copy of
\* the program, and bind (); a call that fails closes the socket and throws
\* SocketConfigError.
OpenSocket ==
    /\ lpf.sock < 0
    /\ \E port \in Ports, failing \in {"socket", "setsockopt", "bind", "none"} :
          LET program == PortPatched(lpf.dhcp_sock_filter, port)
          IN  lpf' = IF failing = "socket" THEN lpf
                     ELSE IF failing = "none"
                          THEN [lpf EXCEPT !.dhcp_sock_filter = program, !.sock = 3,
                                           !.attached = program, !.port = port]
                          ELSE [lpf EXCEPT !.dhcp_sock_filter = program]
    /\ UNCHANGED <<universe, errorThrows, expression, yystack_, yyla, yyn, yyerrstatus_,
                   yynerrs_, yyresult, pc, read, deviated, errors, compiled, verdict,
                   reductions, evaluation, message>>

\* A frame arrives on the interface the socket is bound to.
FrameArrives ==
    /\ lpf.sock >= 0
    /\ lpf.machine.result # "running"
    /\ \E frame \in Frames :
          lpf' = [lpf EXCEPT !.frame = frame, !.machine = [Idle EXCEPT !.result = "running"]]
    /\ UNCHANGED <<universe, errorThrows, expression, yystack_, yyla, yyn, yyerrstatus_,
                   yynerrs_, yyresult, pc, read, deviated, errors, compiled, verdict,
                   reductions, evaluation, message>>

\* The kernel runs the next instruction of the attached program.
FilterStep ==
    /\ lpf.machine.result = "running"
    /\ lpf' = [lpf EXCEPT !.machine = Instruction(lpf.attached, lpf.frame, lpf.machine)]
    /\ UNCHANGED <<universe, errorThrows, expression, yystack_, yyla, yyn, yyerrstatus_,
                   yynerrs_, yyresult, pc, read, deviated, errors, compiled, verdict,
                   reductions, evaluation, message>>

NextFilter == OpenSocket \/ FrameArrives \/ FilterStep

SpecFilter == InitFilter /\ [][NextFilter]_vars

\* What the headers of a frame say, -1 for a field the frame is too short
\* to hold.
EtherType(frame) == IF InFrame(frame, 12, 2) THEN HalfWordAt(frame, 12) ELSE -1

IpProtocol(frame) == IF InFrame(frame, 14 + 9, 1) THEN ByteAt(frame, 14 + 9) ELSE -1

IpHeaderLength(frame) == IF InFrame(frame, 14, 1) THEN 4 * (ByteAt(frame, 14) % 16) ELSE -1

UdpDestinationPort(frame) ==
    IF IpHeaderLength(frame) >= 0 /\ InFrame(frame, 14 + IpHeaderLength(frame) + 2, 2)
    THEN HalfWordAt(frame, 14 + IpHeaderLength(frame) + 2)
    ELSE -1

Filtered == lpf.machine.result \in {"accepted", "dropped"}

\* C19: the filter that openSocket (port) installs accepts a frame only if
\* its Ethernet type is IP, its IP protocol is UDP and its UDP destination
\* port is the port given to openSocket; every other frame is dropped.
C19_OnlyUdpToPort ==
    LET wanted == /\ EtherType(lpf.frame) = 2048
                  /\ IpProtocol(lpf.frame) = 17
                  /\ UdpDestinationPort(lpf.frame) = lpf.port
    IN  Filtered => /\ lpf.machine.result = "accepted" => wanted
                    /\ ~wanted => lpf.machine.result = "dropped"

\* A UDP frame to port 68 with IP options was accepted on a socket opened
\* for port 68.
C19_Witness ==
    /\ lpf.machine.result = "accepted"
    /\ lpf.port = 68
    /\ UdpDestinationPort(lpf.frame) = 68
    /\ IpHeaderLength(lpf.frame) = 24

\* A UDP frame to the default port was dropped on a socket opened for
\* port 68.
C19_WitnessOtherPort ==
    /\ lpf.machine.result = "dropped"
    /\ lpf.port = 68
    /\ EtherType(lpf.frame) = 2048
    /\ IpProtocol(lpf.frame) = 17
    /\ UdpDestinationPort(lpf.frame) = 67
    /\ lpf.machine.pc = 10

\* The frame carries a fragment of a fragmented IP datagram: more fragments
\* follow it, or it does not start at offset 0.
IsFragment(frame) ==
    /\ EtherType(frame) = 2048
    /\ InFrame(frame, 14 + 6, 2)
    /\ \/ (HalfWordAt(frame, 14 + 6) \div 8192) % 2 = 1
       \/ HalfWordAt(frame, 14 + 6) % 8192 # 0

\* C20: every frame that carries a fragment of a fragmented IP datagram is
\* dropped, whatever the position of the fragment in the datagram.
C20_AllFragmentsDropped ==
    (Filtered /\ IsFragment(lpf.frame)) => lpf.machine.result = "dropped"

\* What the program does: a fragment that does not start at offset 0 is
\* dropped; the first fragment is treated like a datagram in one piece.
C20_LaterFragmentsDropped ==
    (Filtered /\ IsFragment(lpf.frame) /\ HalfWordAt(lpf.frame, 14 + 6) % 8192 # 0)
        => lpf.machine.result = "dropped"

\* The first fragment of a datagram to the port was accepted.
C20_FirstFragmentAccepted ==
    /\ lpf.machine.result = "accepted"
    /\ IsFragment(lpf.frame)
    /\ HalfWordAt(lpf.frame, 14 + 6) = 8192

\* C21: the instruction that openSocket (port) overwrites is the comparison
\* of the UDP destination port: in the program handed to the socket,
\* instruction 8 is the jump-if-equal that follows
\* the load of the half-word at IP header length + 16 and its operand is
\* port; every other instruction, and the jump offsets of instruction 8,
\* are as compiled.
C21_PortTestPatched ==
    lpf.sock >= 0 =>
        /\ Len(lpf.attached) = 11
        /\ lpf.attached[8] = [code |-> "BPF_LD + BPF_H + BPF_IND", jt |-> 0, jf |-> 0, k |-> 16]
        /\ lpf.attached[9] = [code |-> "BPF_JMP + BPF_JEQ + BPF_K", jt |-> 0, jf |-> 1,
                              k |-> lpf.port]
        /\ \A i \in (1..11) \ {9} : lpf.attached[i] = dhcp_sock_filter[i]

\* A socket was opened for port 68 and its program compares with 68, the
\* default being 67.
C21_Witness ==
    /\ lpf.sock >= 0
    /\ lpf.port = 68
    /\ lpf.attached[9].k = 68
    /\ dhcp_sock_filter[9].k = 67

(***************************************************************************)
(* PktFilterLPF::send and PktFilterLPF::receive, one call of either.       *)
(* An address is the sequence of its four bytes.                           *)
(***************************************************************************)
bcast_addr == <<255, 255, 255, 255>>

\* The addresses of the interface's sockets and another local address.
SocketAddresses == {<<10, 0, 0, 1>>, <<10, 0, 1, 1>>}

LocalAddresses == {bcast_addr, <<10, 0, 0, 1>>, <<192, 0, 2, 1>>}

\* The descriptors that send and receive are called with.
Descriptors == {3, 4, 5}

\* iface.getSockets (): no socket, one, or two with descriptors of their own.
SocketCollections ==
    {<<>>}
    \cup {<<[sockfd_ |-> fd, addr_ |-> a]>> : fd \in {3, 4}, a \in SocketAddresses}
    \cup {<<[sockfd_ |-> 3, addr_ |-> a], [sockfd_ |-> 4, addr_ |-> b]>> :
              a, b \in SocketAddresses}

\* Faulty variant: the address of a socket is taken whatever its descriptor.
LocalAddrOfAnySocket(local, socket, sockfd) == socket.addr_

\* if (sockfd == it->sockfd_) pkt->setLocalAddr (it->addr_)
LocalAddrCorrected(local, socket, sockfd) ==
    IF sockfd = socket.sockfd_ THEN socket.addr_ ELSE local

\* read (): an error, no data, or the bytes of a frame.
ReadResults == {[data_len |-> n, raw |-> <<>>] : n \in {-1, 0}}
               \cup {[data_len |-> Len(frame), raw |-> frame] : frame \in Frames}

\* A call of send (iface, sockfd, pkt) or of receive (iface, socket_info).
InitSendReceive ==
    /\ universe = "V4"
    /\ errorThrows = ErrorCallbackThrows
    /\ expression = <<>>
    /\ compiled = <<>>
    /\ verdict = "pending"
    /\ pc = "yynewstate"
    /\ yyresult = -1
    /\ yystack_ = InitialStack
    /\ yyla = NoLookahead
    /\ yyn = 0
    /\ yyerrstatus_ = 0
    /\ yynerrs_ = 0
    /\ read = <<>>
    /\ deviated = FALSE
    /\ errors = <<>>
    /\ reductions = 0
    /\ evaluation = NotEvaluating
    /\ message = NoMessage
    /\ \E call \in
            {[NoCall EXCEPT !.op = "send", !.pc = "ethernet", !.sockets = sockets,
                            !.sockfd = sockfd, !.given = local, !.local = local] :
                 sockets \in SocketCollections, sockfd \in Descriptors,
                 local \in LocalAddresses}
            \cup {[NoCall EXCEPT !.op = "receive", !.pc = "read", !.sockfd = sockfd] :
                      sockfd \in Descriptors} :
           lpf = [NoSocket EXCEPT !.call = call]

\* send (): the Ethernet header is written with the interface's hardware
\* address as source (lines 210-220); the local address is compared with
\* bcast_addr (line 232).
SendEthernetHeader ==
    /\ lpf.call.op = "send"
    /\ lpf.call.pc = "ethernet"
    /\ lpf' = [lpf EXCEPT !.call.buf = <<[part |-> "ethernet", source |-> <<>>]>>,
                          !.call.it = 1,
                          !.call.pc = IF lpf.call.local = bcast_addr THEN "sockets"
                                      ELSE "ip/udp"]
    /\ UNCHANGED <<universe, errorThrows, expression, yystack_, yyla, yyn, yyerrstatus_,
                   yynerrs_, yyresult, pc, read, deviated, errors, compiled, verdict,
                   reductions, evaluation, message>>

\* send (): one turn of the loop over the sockets of the interface
\* (lines 234-239), or its end.
SendNextSocket ==
    /\ lpf.call.op = "send"
    /\ lpf.call.pc = "sockets"
    /\ lpf' = IF lpf.call.it > Len(lpf.call.sockets)
              THEN [lpf EXCEPT !.call.pc = "ip/udp"]
              ELSE [lpf EXCEPT !.call.local =
                                   LocalAddrCorrected(@, lpf.call.sockets[lpf.call.it],
                                                      lpf.call.sockfd),
                               !.call.it = @ + 1]
    /\ UNCHANGED <<universe, errorThrows, expression, yystack_, yyla, yyn, yyerrstatus_,
                   yynerrs_, yyresult, pc, read, deviated, errors, compiled, verdict,
                   reductions, evaluation, message>>

\* send (): writeIpUdpHeader (pkt, buf) writes the local address of the
\* packet as the source, then the DHCPv4 message is written (lines 243-246).
SendIpUdpHeader ==
    /\ lpf.call.op = "send"
    /\ lpf.call.pc = "ip/udp"
    /\ lpf' = [lpf EXCEPT !.call.buf = @ \o <<[part |-> "ip/udp", source |-> lpf.call.local],
                                               [part |-> "dhcp", source |-> <<>>]>>,
                          !.call.pc = "sendto"]
    /\ UNCHANGED <<universe, errorThrows, expression, yystack_, yyla, yyn, yyerrstatus_,
                   yynerrs_, yyresult, pc, read, deviated, errors, compiled, verdict,
                   reductions, evaluation, message>>

\* send (): sendto (); SocketWriteError when it fails, 0 otherwise
\* (lines 254-262).
SendTo ==
    /\ lpf.call.op = "send"
    /\ lpf.call.pc = "sendto"
    /\ \E result \in {-1, 0} :
          lpf' = [lpf EXCEPT !.call.pc = "done",
                             !.call.result = IF result < 0 THEN "thrown" ELSE "returned"]
    /\ UNCHANGED <<universe, errorThrows, expression, yystack_, yyla, yyn, yyerrstatus_,
                   yynerrs_, yyresult, pc, read, deviated, errors, compiled, verdict,
                   reductions, evaluation, message>>

\* Faulty variant: only an error of read () counts.
NothingReadError(data_len) == data_len < 0

\* if (data_len <= 0)
NothingRead(data_len) == data_len <= 0

\* receive (): read (); an empty packet is returned when nothing was read
\* (lines 155-164).
ReceiveRead ==
    /\ lpf.call.op = "receive"
    /\ lpf.call.pc = "read"
    /\ \E r \in ReadResults :
          lpf' = [lpf EXCEPT !.call.data_len = r.data_len,
                             !.call.raw = r.raw,
                             !.call.pc = IF NothingRead(r.data_len) THEN "done" ELSE "decode",
                             !.call.result = IF NothingRead(r.data_len) THEN "null"
                                             ELSE "none"]
    /\ UNCHANGED <<universe, errorThrows, expression, yystack_, yyla, yyn, yyerrstatus_,
                   yynerrs_, yyresult, pc, read, deviated, errors, compiled, verdict,
                   reductions, evaluation, message>>

\* The offset after the Ethernet, IP and UDP headers of the bytes read,
\* -1 when they are too few to hold the headers.
HeadersEnd(raw) ==
    IF ~InFrame(raw, ETHERNET_HEADER_LEN, 1) THEN -1
    ELSE LET end == ETHERNET_HEADER_LEN + 4 * (ByteAt(raw, ETHERNET_HEADER_LEN) % 16) + 8
         IN  IF end <= Len(raw) THEN end ELSE -1

\* receive (): decodeEthernetHeader and decodeIpUdpHeader read the headers
\* from the buffer (lines 166-184); a read past the end of the buffer
\* throws.
ReceiveDecode ==
    /\ lpf.call.op = "receive"
    /\ lpf.call.pc = "decode"
    /\ lpf' = IF HeadersEnd(lpf.call.raw) < 0
              THEN [lpf EXCEPT !.call.pc = "done", !.call.result = "thrown"]
              ELSE [lpf EXCEPT !.call.pc = "build",
                               !.call.position = HeadersEnd(lpf.call.raw)]
    /\ UNCHANGED <<universe, errorThrows, expression, yystack_, yyla, yyn, yyerrstatus_,
                   yynerrs_, yyresult, pc, read, deviated, errors, compiled, verdict,
                   reductions, evaluation, message>>

\* receive (): the rest of the buffer is the DHCP data of the packet that
\* is returned (lines 186-204).  &dhcp_buf[0] of an empty vector is
\* undefined: the call goes on with no data or ends the process.
ReceiveBuild ==
    /\ lpf.call.op = "receive"
    /\ lpf.call.pc = "build"
    /\ LET dhcp_buf == SubSeq(lpf.call.raw, lpf.call.position + 1, Len(lpf.call.raw))
       IN  \E outcome \in (IF dhcp_buf = <<>> THEN {"packet", "aborted"} ELSE {"packet"}) :
              lpf' = [lpf EXCEPT !.call.pc = "done",
                                 !.call.pkt = dhcp_buf,
                                 !.call.result = outcome]
    /\ UNCHANGED <<universe, errorThrows, expression, yystack_, yyla, yyn, yyerrstatus_,
                   yynerrs_, yyresult, pc, read, deviated, errors, compiled, verdict,
                   reductions, evaluation, message>>

NextSendReceive ==
    \/ SendEthernetHeader
    \/ SendNextSocket
    \/ SendIpUdpHeader
    \/ SendTo
    \/ ReceiveRead
    \/ ReceiveDecode
    \/ ReceiveBuild

SpecSendReceive == InitSendReceive /\ [][NextSendReceive]_vars

\* The IP/UDP header has been written: its source address.
HeaderWritten == lpf.call.op = "send" /\ Len(lpf.call.buf) >= 2

HeaderSource == lpf.call.buf[2].source

\* The sockets of the interface with the descriptor that send was called
\* with.
OwnSockets ==
    {i \in 1..Len(lpf.call.sockets) : lpf.call.sockets[i].sockfd_ = lpf.call.sockfd}

C22_WitnessForeign ==
    /\ lpf.call.result = "returned"
    /\ lpf.call.sockfd = 5
    /\ Len(lpf.call.sockets) = 2
    /\ HeaderSource = <<255, 255, 255, 255>>

ReceiveDone == lpf.call.op = "receive" /\ lpf.call.pc = "done"

C23_WitnessPacket ==
    /\ ReceiveDone
    /\ lpf.call.result = "packet"
    /\ lpf.call.data_len = 46
    /\ Len(lpf.call.pkt) = 4

\* 13 bytes were read and the decoding of the headers threw.
C23_WitnessThrown ==
    /\ ReceiveDone
    /\ lpf.call.data_len = 13
    /\ lpf.call.result = "thrown"

(***************************************************************************)
(* The methods of dns::Message, one call per step.                         *)
(***************************************************************************)
\* The calls that modify the message, with their arguments.
ModifyCalls ==
    {[op |-> op, arg |-> f] : op \in {"setHeaderFlag", "clearHeaderFlag"}, f \in {"QR", "AA"}}
    \cup {[op |-> "setQid", arg |-> q] : q \in {1, 2}}
    \cup {[op |-> "setRcode", arg |-> r] : r \in {0, 3}}
    \cup {[op |-> "setOpcode", arg |-> o] : o \in {0, 5}}
    \cup {[op |-> op, arg |-> 0] : op \in {"setEDNS", "addQuestion", "addRRset"}}

ModifyOps == {call.op : call \in ModifyCalls}

GetOps == {"getRcode", "getOpcode", "toText", "toWire"}

\* Faulty variant: the mode is not looked at.
RenderOnlyUnchecked(mode) == TRUE

\* "Only allowed in the RENDER mode."
RenderOnly(mode) == mode = RENDER

\* What the call does to a message in the RENDER mode.
Applied(m, call) ==
    CASE call.op = "setHeaderFlag" -> [m EXCEPT !.flags = @ \cup {call.arg}]
      [] call.op = "clearHeaderFlag" -> [m EXCEPT !.flags = @ \ {call.arg}]
      [] call.op = "setQid" -> [m EXCEPT !.qid = call.arg]
      [] call.op = "setRcode" -> [m EXCEPT !.rcode = call.arg, !.given = @ \cup {"Rcode"}]
      [] call.op = "setOpcode" -> [m EXCEPT !.opcode = call.arg, !.given = @ \cup {"Opcode"}]
      [] call.op = "setEDNS" -> [m EXCEPT !.edns = TRUE]
      [] call.op = "addQuestion" -> [m EXCEPT !.questions = @ + 1]
      [] call.op = "addRRset" -> [m EXCEPT !.rrsets = @ + 1]

\* A call that is prohibited for the mode of the message throws
\* InvalidMessageOperation.
Modified(m, call) ==
    IF RenderOnly(m.mode)
    THEN [Applied(m, call) EXCEPT !.last = [op |-> call.op, outcome |-> "returned"]]
    ELSE [m EXCEPT !.last = [op |-> call.op, outcome |-> "InvalidMessageOperation"]]

\* The message has a code: it was set, or parsed from wire data.
HasCode(code) == code # Unset

\* getRcode, getOpcode, toText, toWire: the Opcode and the Rcode that the
\* method needs must be there, and toWire needs the RENDER mode.
Gettable(m, op) ==
    CASE op = "getRcode" -> HasCode(m.rcode)
      [] op = "getOpcode" -> HasCode(m.opcode)
      [] op = "toText" -> HasCode(m.rcode) /\ HasCode(m.opcode)
      [] op = "toWire" -> m.mode = RENDER /\ HasCode(m.rcode) /\ HasCode(m.opcode)

\* Faulty variant: the Opcode and the Rcode outlive the clear.
ClearedKeepingCodes(m, mode) ==
    [EmptyMessage(mode) EXCEPT !.rcode = m.rcode, !.opcode = m.opcode,
                               !.last = [op |-> "clear", outcome |-> "returned"]]

\* clear (mode): the content is dropped and the message is as constructed
\* in the mode.
Cleared(m, mode) == [EmptyMessage(mode) EXCEPT !.last = [op |-> "clear", outcome |-> "returned"]]

\* The headers of the wire data that is parsed: a query and a response
\* with NXDOMAIN.
WireMessages ==
    {[qid |-> 1, flags |-> {}, opcode |-> 0, rcode |-> 0, questions |-> 1, rrsets |-> 0],
     [qid |-> 2, flags |-> {"QR", "AA"}, opcode |-> 0, rcode |-> 3, questions |-> 1,
      rrsets |-> 1]}

\* parseHeader takes the header fields from the wire data, fromWire the
\* sections as well.
Parsed(m, op, wire) ==
    [m EXCEPT !.qid = wire.qid, !.flags = wire.flags, !.opcode = wire.opcode,
              !.rcode = wire.rcode, !.given = {"Rcode", "Opcode"},
              !.questions = IF op = "fromWire" THEN wire.questions ELSE @,
              !.rrsets = IF op = "fromWire" THEN wire.rrsets ELSE @,
              !.last = [op |-> op, outcome |-> "returned"]]

\* Message (mode)
InitMessage ==
    /\ universe = "V4"
    /\ errorThrows = ErrorCallbackThrows
    /\ expression = <<>>
    /\ compiled = <<>>
    /\ verdict = "pending"
    /\ pc = "yynewstate"
    /\ yyresult = -1
    /\ yystack_ = InitialStack
    /\ yyla = NoLookahead
    /\ yyn = 0
    /\ yyerrstatus_ = 0
    /\ yynerrs_ = 0
    /\ read = <<>>
    /\ deviated = FALSE
    /\ errors = <<>>
    /\ reductions = 0
    /\ evaluation = NotEvaluating
    /\ lpf = NoSocket
    /\ \E mode \in {PARSE, RENDER} : message = EmptyMessage(mode)

\* setHeaderFlag, clearHeaderFlag, setQid, setRcode, setOpcode, setEDNS,
\* addQuestion, addRRset
MessageModify ==
    /\ \E call \in ModifyCalls :
          /\ call.op = "addQuestion" /\ RenderOnly(message.mode)
                => message.questions < MaxRecords
          /\ call.op = "addRRset" /\ RenderOnly(message.mode) => message.rrsets < MaxRecords
          /\ message' = Modified(message, call)
    /\ UNCHANGED <<universe, errorThrows, expression, yystack_, yyla, yyn, yyerrstatus_,
                   yynerrs_, yyresult, pc, read, deviated, errors, compiled, verdict,
                   reductions, evaluation, lpf>>

\* getRcode, getOpcode, toText, toWire
MessageGet ==
    /\ \E op \in GetOps :
          message' = [message EXCEPT !.last =
                          [op |-> op,
                           outcome |-> IF Gettable(message, op) THEN "returned"
                                       ELSE "InvalidMessageOperation"]]
    /\ UNCHANGED <<universe, errorThrows, expression, yystack_, yyla, yyn, yyerrstatus_,
                   yynerrs_, yyresult, pc, read, deviated, errors, compiled, verdict,
                   reductions, evaluation, lpf>>

\* clear (mode)
MessageClear ==
    /\ \E mode \in {PARSE, RENDER} : message' = Cleared(message, mode)
    /\ UNCHANGED <<universe, errorThrows, expression, yystack_, yyla, yyn, yyerrstatus_,
                   yynerrs_, yyresult, pc, read, deviated, errors, compiled, verdict,
                   reductions, evaluation, lpf>>

\* parseHeader (buffer), fromWire (buffer) on a message in the PARSE mode:
\* MessageTooShort when the data does not hold a header.
MessageParse ==
    /\ message.mode = PARSE
    /\ \E op \in {"parseHeader", "fromWire"}, short \in BOOLEAN, wire \in WireMessages :
          message' = IF short
                     THEN [message EXCEPT !.last = [op |-> op, outcome |-> "MessageTooShort"]]
                     ELSE Parsed(message, op, wire)
    /\ UNCHANGED <<universe, errorThrows, expression, yystack_, yyla, yyn, yyerrstatus_,
                   yynerrs_, yyresult, pc, read, deviated, errors, compiled, verdict,
                   reductions, evaluation, lpf>>

NextMessage == MessageModify \/ MessageGet \/ MessageClear \/ MessageParse

SpecMessage == InitMessage /\ [][NextMessage]_vars

\* The message without the record of the last call.
Content(m) == [m EXCEPT !.last = [op |-> "none", outcome |-> "none"]]

C25_WitnessUnset ==
    /\ message.mode = 1
    /\ message.last = [op |-> "getRcode", outcome |-> "InvalidMessageOperation"]
    /\ message.given = {"Opcode"}

\* C26 as stated: parse () returns 0 only when the error callback was never
\* invoked, whether the callback throws or returns.
C26_Original ==
    yyresult = 0 => errors = <<>>

\* C26: parse () never returns 0 after a syntax error or a lexer error, and
\* with an error callback that throws it never returns 0 after any error;
\* after a wrong-family construct or a failed conversion reported to a
\* callback that returns, parse () goes on and may return 0.
C26_NoAcceptAfterFatalError ==
    yyresult = 0 =>
        /\ errorThrows => errors = <<>>
        /\ \A i \in 1 .. Len(errors) : errors[i].what \notin {SyntaxError, LexerFailed}

\* C26 witness: the callback returned from a wrong-family error and parse ()
\* returned 0.
C26_Witness ==
    /\ pc = "returned" /\ ~errorThrows
    /\ yyresult = 0
    /\ \E i \in 1 .. Len(errors) : errors[i].what \in FamilyMessages

\* C26 witness: the callback returned from a failed conversion and parse ()
\* returned 0.
C26_WitnessConversion ==
    /\ pc = "returned" /\ ~errorThrows
    /\ yyresult = 0
    /\ Reported(ConversionFailed)

\* C26 witness: the callback returned from a syntax error that came after a
\* wrong-family error, and parse () returned 1.
C26_WitnessSyntax ==
    /\ pc = "returned" /\ ~errorThrows
    /\ yyresult = 1
    /\ Len(errors) >= 2
    /\ Last(errors).what = SyntaxError

\* C26 witness: the callback threw from a wrong-family error and parse ()
\* returned nothing.
C26_WitnessThrown ==
    /\ pc = "thrown" /\ errorThrows
    /\ yyresult # 0
    /\ \E i \in 1 .. Len(errors) : errors[i].what \in FamilyMessages

\* The mode terminals that open an input.
ModeTerminals == {Sym("top-level bool"), Sym("top-level string")}

\* The token leaves a boolean on the evaluation stack.
ProducesBool(tok) ==
    \/ tok.kind \in {"TokenNot", "TokenAnd", "TokenOr", "TokenEqual"}
    \/ /\ tok.kind \in {"TokenOption", "TokenRelay4Option", "TokenRelay6Option",
                        "TokenVendor", "TokenVendorClass"}
       /\ tok.mode = "EXISTS"

\* Whole inputs with a string_expr (a literal, a concat) and with a bool_expr
\* (an exists test, a comparison) under "top-level string".
StringRootTexts ==
    {Whole("top-level string", x) :
        x \in {<<make_STRING(<<97>>)>>, Concat(S0, S0), B0, Equals(S0, S0)}}

\* C27: the first terminal selects the root form.  After "top-level bool"
\* parse () accepts only a bool_expr followed by the end of input, and a
\* string_expr followed by the end of input is a syntax error; after
\* "top-level string" it accepts a string_expr and also a bool_expr followed
\* by the end of input; with any other first terminal it reports a syntax
\* error at that terminal.
C27_RootForm ==
    /\ yyresult = 0 =>
          /\ read[1].type \in ModeTerminals
          /\ Last(read) = T("end of file")
          /\ read[1] = T("top-level bool") => ProducesBool(Last(expression))
    /\ (pc = "done" /\ read = Whole("top-level bool", S0)) =>
          /\ verdict = "rejected"
          /\ Len(errors) = 1 /\ errors[1].what = SyntaxError
          /\ errors[1].begin = Len(read)
    /\ (pc = "done" /\ read \in StringRootTexts) =>
          /\ verdict = "program"
          /\ errors = <<>>
    /\ (pc = "done" /\ read # <<>> /\ read[1] # LexFailure /\ read[1].type \notin ModeTerminals) =>
          /\ verdict = "rejected"
          /\ Len(read) = 1
          /\ Len(errors) = 1 /\ errors[1].what = SyntaxError

\* C27 witness: a bool_expr was accepted under "top-level string".
C27_Witness ==
    /\ pc = "done" /\ verdict = "program"
    /\ read = Whole("top-level string", Equals(S0, S0))
    /\ compiled = <<TokenString(<<98>>), TokenString(<<98>>), TokenEqual>>

\* C27 witness: a string_expr was accepted under "top-level string".
C27_WitnessString ==
    /\ pc = "done" /\ verdict = "program"
    /\ read = Whole("top-level string", <<make_STRING(<<97>>)>>)
    /\ compiled = <<TokenString(<<97>>)>>

\* C27 witness: a string_expr followed by the end of input was refused under
\* "top-level bool".
C27_WitnessBoolMode ==
    /\ pc = "done" /\ verdict = "rejected"
    /\ read = Whole("top-level bool", S0)
    /\ Reported(SyntaxError)

\* C27 witness: an input whose first terminal is no mode terminal was
\* refused.
C27_WitnessOtherFirst ==
    /\ pc = "done" /\ verdict = "rejected"
    /\ Len(read) = 1 /\ read[1] = T("option")
    /\ Reported(SyntaxError)

\* C27 witness: an exists test was accepted under "top-level string".
C27_WitnessB0 ==
    /\ pc = "done" /\ verdict = "program"
    /\ read = Whole("top-level string", B0)
    /\ compiled = ProgramB0

\* The rules that build an Option, Relay4Option, Relay6Option, Relay6Field,
\* Vendor or VendorClass token from bracketed operands.
ConstructRules == {12, 13, 14, 15, 16, 17, 21, 22, 23, 27, 32}

\* The option code that a terminal between brackets writes: a number, or the
\* name of a defined option.
CodeWritten(t) ==
    IF t.type = Sym("option name")
    THEN (CHOOSE d \in OptionDefs : d.name = t.text).code
    ELSE DecValue(t.text)

\* The mode or field that the suffix of a construct writes.
SuffixWritten(t) ==
    CASE t.type = Sym("exists")   -> "EXISTS"
      [] t.type = Sym("text")     -> "TEXTUAL"
      [] t.type = Sym("hex")      -> "HEXADECIMAL"
      [] t.type = Sym("peeraddr") -> "PEERADDR"
      [] t.type = Sym("linkaddr") -> "LINKADDR"
      [] OTHER                    -> ""

\* The token that the terminals c of one construct write, under family u.
Written(c, u) ==
    LET k      == c[1].type
        suffix == SuffixWritten(c[Len(c)])
        tok(kind, fam, num, code) ==
            [kind |-> kind, universe |-> fam, num |-> num, code |-> code,
             mode |-> suffix, text |-> <<>>]
    IN  CASE k = Sym("option") -> tok("TokenOption", "", 0, CodeWritten(c[3]))
          [] k = Sym("relay4") -> tok("TokenRelay4Option", "", 0, CodeWritten(c[3]))
          [] k = Sym("relay6") /\ Len(c) = 11 ->
                tok("TokenRelay6Option", "", DecValue(c[3].text), CodeWritten(c[8]))
          [] k = Sym("relay6") /\ Len(c) = 6 ->
                tok("TokenRelay6Field", "", DecValue(c[3].text), 0)
          [] k = Sym("vendor") /\ Len(c) = 11 ->
                tok("TokenVendor", u, EnterpriseIdOf(c[3]), CodeWritten(c[8]))
          [] k = Sym("vendor") /\ Len(c) = 6 ->
                tok("TokenVendor", u, EnterpriseIdOf(c[3]), 0)
          [] k = Sym("vendor-class") ->
                tok("TokenVendorClass", u, EnterpriseIdOf(c[3]), 0)
          [] OTHER -> Tok("")

\* The terminals of the right-hand side that is about to be reduced: the
\* last yyr2_[yyn] terminals read, the lookahead aside.
ReducedTerminals ==
    LET last == IF yyla = NoLookahead THEN Len(read) ELSE Len(read) - 1
    IN  SubSeq(read, last - At(yyr2_, yyn) + 1, last)

\* C28: the token that one of the rules 12 - 17, 21 - 23, 27, 32 appends
\* carries the values written in the construct being reduced: the code, nest
\* level or enterprise id of its own brackets, each in its own position, and
\* the mode of its suffix; nothing comes from a neighbouring construct.
C28_OperandsOfOwnConstruct ==
    [][(pc = "yyreduce" /\ yyn \in ConstructRules /\ expression' # expression) =>
          expression' = Append(expression, Written(ReducedTerminals, universe))]_vars

\* C28 witness: relay6[1].option[2].text next to a literal was compiled to
\* a token with nest level 1 and option code 2.
C28_Witness ==
    /\ pc = "done" /\ verdict = "program" /\ universe = "V6"
    /\ ReadHas("relay6") /\ ReadHas("==")
    /\ compiled[1] = [kind |-> "TokenRelay6Option", universe |-> "", num |-> 1, code |-> 2,
                      mode |-> "TEXTUAL", text |-> <<>>]

\* C28 witness: vendor[4491].option[2].exists was compiled to a token with
\* enterprise id 4491 and sub-option code 2.
C28_WitnessVendor ==
    /\ pc = "done" /\ verdict = "program"
    /\ compiled = <<[kind |-> "TokenVendor", universe |-> universe, num |-> 4491, code |-> 2,
                     mode |-> "EXISTS", text |-> <<>>]>>

\* C28 witness: two option constructs side by side, each token with the
\* code of its own brackets.
C28_WitnessNeighbours ==
    /\ pc = "done" /\ verdict = "program"
    /\ Len(compiled) = 3
    /\ compiled[1].kind = "TokenOption" /\ compiled[1].code = 5
    /\ compiled[2].kind = "TokenRelay4Option" /\ compiled[2].code = 12

\* The rules of the constructs that one family only takes.
GatedRules == {13, 14, 22, 23, 25, 26, 27}

\* A gated construct is about to be reduced under the family that does not
\* take its keyword.
WrongFamilyReduction ==
    /\ pc = "yyreduce"
    /\ yyn \in GatedRules
    /\ ReducedTerminals[1].type \in WrongFamilyKeywords(universe)

\* C29: the reduction of a gated construct under the wrong family appends no
\* token and leaves the tokens appended earlier as they were, whether the
\* error callback throws or returns.
C29_WrongFamilyAppendsNothing ==
    [][WrongFamilyReduction => expression' = expression]_vars

\* C29 witness: the callback returned from a family error raised after
\* tokens were appended, and the reduction has left them alone.
C29_Witness ==
    /\ pc = "yynewstate" /\ ~errorThrows
    /\ yyn \in GatedRules
    /\ errors # <<>> /\ Last(errors).what \in FamilyMessages
    /\ Last(errors).begin = Len(read) - At(yyr2_, yyn) + 1
    /\ expression # <<>>

\* C29 witness: the callback threw from a family error raised after tokens
\* were appended.
C29_WitnessThrown ==
    /\ pc = "caught" /\ errorThrows
    /\ yyn \in GatedRules
    /\ Last(errors).what \in FamilyMessages
    /\ expression # <<>>

\* The String token with the text that a start or length terminal writes.
TextToken(t) ==
    [kind |-> "TokenString", universe |-> "", num |-> 0, code |-> 0, mode |-> "",
     text |-> IF t.type = Sym("all") THEN <<97, 108, 108>> ELSE t.text]

\* C30: when substring (S, start, length) is reduced, the program ends with
\* the tokens of S, then one String token with the text of the start
\* literal, then one with the text of the length literal ("all" for the
\* keyword); the Substring token comes after them.  The literals go through
\* as written: a literal beyond 32 bits, a negative one and one with leading
\* zeros are accepted and reach the program as their text.
C30_SubstringOperandsAsText ==
    /\ (pc = "yyreduce" /\ yyn = 28) =>
          LET last == IF yyla = NoLookahead THEN Len(read) ELSE Len(read) - 1
              n    == Len(expression)
          IN  /\ n >= 3
              /\ Stack(yystack_, 7).mark = Stack(yystack_, 5).mark
              /\ Stack(yystack_, 5).mark < n - 2
              /\ expression[n - 1] = TextToken(read[last - 3])
              /\ expression[n] = TextToken(read[last - 1])
              /\ \A i \in 1 .. n : expression[i].kind # "TokenSubstring" \/ i <= n - 3
    /\ \A s \in StartLiterals, l \in LengthLiterals :
          (pc = "done" /\ read = Whole("top-level string", Substring(S0, <<s>>, <<l>>))) =>
              /\ verdict = "program"
              /\ errors = <<>>
              /\ compiled = <<TextToken(S0[1]), TextToken(s), TextToken(l),
                              [kind |-> "TokenSubstring", universe |-> "", num |-> 0,
                               code |-> 0, mode |-> "", text |-> <<>>]>>

\* C30 witness: substring ('b', 4294967296, -1) has been compiled, both
\* literals as text.
C30_Witness ==
    /\ pc = "done" /\ verdict = "program"
    /\ Len(compiled) = 4
    /\ compiled[2].text = <<52, 50, 57, 52, 57, 54, 55, 50, 57, 54>>
    /\ compiled[3].text = <<45, 49>>
    /\ compiled[4].kind = "TokenSubstring"

\* C30 witness: substring ('b', 007, all) has been compiled, the start with
\* its leading zeros and the length as the text all.
C30_WitnessAll ==
    /\ pc = "done" /\ verdict = "program"
    /\ Len(compiled) = 4
    /\ compiled[2].text = <<48, 48, 55>>
    /\ compiled[3].text = <<97, 108, 108>>

\* C30 witness: the substring inside concat ('b', substring ('a', 0, all))
\* is about to be reduced: the token of 'b' came first, then the token of
\* the operand 'a' and the two String tokens.
C30_WitnessOperand ==
    /\ pc = "yyreduce" /\ yyn = 28
    /\ Stack(yystack_, 5).mark = 1
    /\ expression = <<TokenString(<<98>>), TokenString(<<97>>), TokenString(<<48>>),
                      TokenString(<<97, 108, 108>>)>>

\* The integer literal at position i of text stands for a string_expr: it
\* is not between brackets and is not a start or a length of substring.
BareInteger(text, i) ==
    /\ text[i].type = Sym("integer")
    /\ ~(i > 1 /\ text[i - 1].type = Sym("["))
    /\ ~StartOrLength(text, i)

\* The Integer tokens that the bare integer literals of text write, in the
\* order of the text.
BareIntegerTokens(text) ==
    LET at == SelectSeq([i \in 1 .. Len(text) |-> i], LAMBDA i : BareInteger(text, i))
    IN  [k \in 1 .. Len(at) |->
            [kind |-> "TokenInteger", universe |-> "", num |-> DecValue(text[at[k]].text),
             code |-> 0, mode |-> "", text |-> <<>>]]

IntegerTokens(program) == SelectSeq(program, LAMBDA tok : tok.kind = "TokenInteger")

IntegerToken(n) ==
    [kind |-> "TokenInteger", universe |-> "", num |-> n, code |-> 0, mode |-> "", text |-> <<>>]

\* C31: a bare INTEGER literal is accepted as the root of a top-level
\* string, as the source of substring and as an operand of concat and of ==,
\* and writes exactly one Integer token with its value; the Integer tokens of
\* an accepted program are those of its bare literals, in order, so that an
\* INTEGER between brackets, or as a start or length, writes none.
C31_IntegerLiteral ==
    /\ verdict = "program" => IntegerTokens(compiled) = BareIntegerTokens(read)
    /\ (pc = "done" /\ read = Whole("top-level string", <<make_INTEGER(7)>>)) =>
          (verdict = "program" /\ compiled = <<IntegerToken(7)>>)
    /\ (pc = "done" /\ read = Whole("top-level string", <<Large32>>)) =>
          (verdict = "program" /\ compiled = <<IntegerToken(2147483647)>>)
    /\ (pc = "done" /\ read = Whole("top-level string",
                                    Substring(<<make_INTEGER(7)>>, <<make_INTEGER(0)>>, <<make_INTEGER(1)>>))) =>
          (verdict = "program" /\ Len(compiled) = 4 /\ compiled[1] = IntegerToken(7))
    /\ (pc = "done" /\ read = Whole("top-level string", Concat(<<make_INTEGER(7)>>, <<Large32>>))) =>
          /\ verdict = "program"
          /\ SubSeq(compiled, 1, 2) = <<IntegerToken(7), IntegerToken(2147483647)>>
          /\ Len(compiled) = 3
    /\ (pc = "done" /\ read = Whole("top-level bool", Equals(<<make_INTEGER(7)>>, <<make_INTEGER(8)>>))) =>
          /\ verdict = "program"
          /\ SubSeq(compiled, 1, 2) = <<IntegerToken(7), IntegerToken(8)>>
          /\ Len(compiled) = 3
    /\ (pc = "done" /\ read = Whole("top-level bool", B0)) =>
          (verdict = "program" /\ Len(compiled) = 1 /\ IntegerTokens(compiled) = <<>>)

\* C31 witness: concat (7, 2147483647) has been compiled to two Integer
\* tokens and the Concat token.
C31_Witness ==
    /\ pc = "done" /\ verdict = "program"
    /\ Len(compiled) = 3
    /\ compiled[2].kind = "TokenInteger" /\ compiled[2].num = 2147483647
    /\ compiled[3].kind = "TokenConcat"

\* C31 witness: substring (7, 0, 1) has been compiled; of its three
\* literals only the source is an Integer token.
C31_WitnessSubstring ==
    /\ pc = "done" /\ verdict = "program"
    /\ compiled[1].kind = "TokenInteger" /\ compiled[1].num = 7
    /\ Len(IntegerTokens(compiled)) = 1
    /\ Last(compiled).kind = "TokenSubstring"

\* C31 witness: an accepted text with integer literals between brackets
\* only has no Integer token.
C31_WitnessBrackets ==
    /\ pc = "done" /\ verdict = "program"
    /\ ReadHas("relay6")
    /\ \E i \in 1 .. Len(read) : read[i] = make_INTEGER(2)
    /\ IntegerTokens(compiled) = <<>>

\* C31 witness: a bare literal is the root of a top-level string.
C31_WitnessRoot ==
    /\ pc = "done" /\ verdict = "program"
    /\ Len(read) = 3
    /\ compiled = <<IntegerToken(7)>>

IsJump(ins) == ins.code \in {"BPF_JMP + BPF_JEQ + BPF_K", "BPF_JMP + BPF_JSET + BPF_K"}

IsReturn(ins) == ins.code = "BPF_RET + BPF_K"

IsLoad(ins) ==
    ins.code \in {"BPF_LD + BPF_H + BPF_ABS", "BPF_LD + BPF_B + BPF_ABS",
                  "BPF_LD + BPF_H + BPF_IND", "BPF_LDX + BPF_B + BPF_MSH"}

\* The jumps of the program, instruction i (from 1) going to i + 1 + jt or
\* i + 1 + jf: forward, inside the program, and on the last instruction, the
\* drop, when the test fails (jf of an equality test, jt of the test for
\* fragment bits).
JumpsWellFormed(program) ==
    /\ Len(program) = 11
    /\ IsReturn(program[10]) /\ program[10].k # 0
    /\ IsReturn(program[11]) /\ program[11].k = 0
    /\ \A i \in 1 .. Len(program) :
          IsJump(program[i]) =>
              /\ program[i].jt >= 0 /\ program[i].jf >= 0
              /\ i + 1 + program[i].jt <= Len(program)
              /\ i + 1 + program[i].jf <= Len(program)
              /\ LET failed == IF program[i].code = "BPF_JMP + BPF_JSET + BPF_K"
                               THEN program[i].jt ELSE program[i].jf
                 IN  i + 1 + failed = Len(program)

\* The number of instructions that the run of program on frame takes from
\* the machine m on, counted as far as fuel lasts and one more.
RECURSIVE Steps(_, _, _, _)
Steps(program, frame, m, fuel) ==
    IF m.result # "running" THEN 0
    ELSE IF fuel = 0 THEN 1
    ELSE 1 + Steps(program, frame, Instruction(program, frame, m), fuel - 1)

\* The length of the whole run on the frame that arrived.
RunSteps ==
    Steps(lpf.attached, lpf.frame, [Idle EXCEPT !.result = "running"], Len(lpf.attached))

\* The run ended at a return instruction.
EndedAtReturn == IsReturn(lpf.attached[lpf.machine.pc + 1])

\* The run ended at a load whose bytes the frame does not have.
EndedAtLoad ==
    /\ IsLoad(lpf.attached[lpf.machine.pc + 1])
    /\ lpf.machine.result = "dropped"
    /\ lpf.machine.pc \in {0, 2, 4, 6, 7}

\* C32 as stated: the program is well formed and every execution ends at one
\* of the two return instructions after at most 10 steps, for every frame.
C32_Original ==
    /\ JumpsWellFormed(lpf.dhcp_sock_filter)
    /\ lpf.machine.result # "none" => RunSteps <= 10
    /\ Filtered => EndedAtReturn

\* C32: every jump of the 11 instructions lands inside the program and after
\* the jump, every failed test lands on the final drop instruction, and
\* every execution ends after at most 10 steps, at one of the two return
\* instructions or, for a frame too short for a load, at that load, which
\* drops the frame.
C32_WellFormed ==
    /\ JumpsWellFormed(lpf.dhcp_sock_filter)
    /\ lpf.sock >= 0 => JumpsWellFormed(lpf.attached)
    /\ lpf.machine.result # "none" =>
          /\ lpf.machine.pc \in 0 .. (Len(lpf.attached) - 1)
          /\ RunSteps <= 10
    /\ Filtered => (EndedAtReturn \/ EndedAtLoad)
    /\ (Filtered /\ lpf.machine.result = "accepted") => lpf.machine.pc = 9

\* C32 witness: a run of 10 steps, every instruction but the drop, has
\* accepted a frame.
C32_Witness ==
    /\ lpf.machine.result = "accepted"
    /\ lpf.machine.pc = 9
    /\ RunSteps = 10

\* C32 witness: a failed test has ended at the drop instruction.
C32_WitnessDrop ==
    /\ lpf.machine.result = "dropped"
    /\ lpf.machine.pc = 10
    /\ RunSteps = 3

\* C32 witness: a frame that ends inside the IP header was dropped at the
\* load of the protocol, not at a return instruction.
C32_WitnessShortFrame ==
    /\ lpf.machine.result = "dropped"
    /\ lpf.machine.pc = 2
    /\ Len(lpf.frame) = 21
    /\ EtherType(lpf.frame) = 2048

=============================================================================
